---- MODULE Spec2Model ----
(***************************************************************************)
(* State-machine model of the SENGBARD step sequencer                      *)
(* (src/plugin/src/Sequencer.cpp): scene store, clock, three track         *)
(* sequencers, persistence.                                                *)
(*                                                                         *)
(* Units.  Time is counted in milliseconds (sampleTime, pulse lengths,     *)
(* trackClockPhase); values that are not whole milliseconds are exact      *)
(* rationals <<n, d>>.  internalClockPhase is counted in 1/60000 of a      *)
(* cycle, so that one tick adds bpm * sampleTime.  clockPhase is counted   *)
(* in quarters (the only increments are 1/4, 1/2 and 1).  Voltages are in  *)
(* tenths of a volt.  Arithmetic is exact: float rounding is not modelled. *)
(***************************************************************************)
EXTENDS Integers, Sequences, FiniteSets, TLC

NUM_TRACKS == 3
NUM_STEPS == 8
NUM_SCENES == 8
NUM_DIVISIONS == 8

Tracks == 0 .. (NUM_TRACKS - 1)
Steps  == 0 .. (NUM_STEPS - 1)
Scenes == 0 .. (NUM_SCENES - 1)

DIR_FORWARD  == 0
DIR_REVERSE  == 1
DIR_PENDULUM == 2
DIR_RANDOM   == 3

(* DIVISIONS[i] as an exact ratio <<numerator, denominator>>. *)
DIVISIONS ==
  [i \in 0 .. (NUM_DIVISIONS - 1) |->
     CASE i = 0 -> <<4, 1>>
       [] i = 1 -> <<2, 1>>
       [] i = 2 -> <<1, 1>>
       [] i = 3 -> <<1, 2>>
       [] i = 4 -> <<1, 3>>
       [] i = 5 -> <<1, 4>>
       [] i = 6 -> <<1, 6>>
       [] i = 7 -> <<1, 8>>]

(* ------------------------------------------------------------------ *)
(* Exact rationals <<n, d>>, d > 0, in lowest terms.                   *)
(* ------------------------------------------------------------------ *)
Abs(x) == IF x < 0 THEN -x ELSE x

RECURSIVE GCD(_, _)
GCD(a, b) == IF b = 0 THEN a ELSE GCD(b, a % b)

Rat(n, d) ==
  LET g == GCD(Abs(n), d)
  IN  IF n = 0 THEN <<0, 1>> ELSE <<n \div g, d \div g>>

RInt(n)    == <<n, 1>>
RMul(a, b) == Rat(a[1] * b[1], a[2] * b[2])
RSub(a, b) == Rat(a[1] * b[2] - b[1] * a[2], a[2] * b[2])
RLt(a, b)  == a[1] * b[2] < b[1] * a[2]
RLe(a, b)  == a[1] * b[2] <= b[1] * a[2]
RMin(a, b) == IF RLt(b, a) THEN b ELSE a
RMax(a, b) == IF RLt(a, b) THEN b ELSE a
(* rack::math::clamp(x, a, b) = fmax(fmin(x, b), a) *)
RClamp(x, a, b) == RMax(RMin(x, b), a)
(* floor of a non-negative rational *)
RFloor(a) == a[1] \div a[2]

(* C integer conversion and remainder truncate toward zero. *)
TruncDiv(a, b) == IF a >= 0 THEN a \div b ELSE -((-a) \div b)
CMod(a, b)     == a - b * TruncDiv(a, b)
ClampInt(x, lo, hi) == IF x < lo THEN lo ELSE IF x > hi THEN hi ELSE x

(* ------------------------------------------------------------------ *)
(* Data model                                                          *)
(* ------------------------------------------------------------------ *)
TrackData ==
  [stepCount     |-> 8,
   divisionIndex |-> 2,
   direction     |-> DIR_FORWARD,
   pitches       |-> [s \in Steps |-> 0],
   gates         |-> [s \in Steps |-> TRUE]]

SceneData ==
  [tracks  |-> [t \in Tracks |-> TrackData],
   isEmpty |-> TRUE]

VARIABLES
  \* SceneStore
  scenes, currentScene, copySourceScene, deleteMode,
  \* knob parameters held by the host (steps, div, dir, pitch, bpm, swing, pw)
  params,
  \* per-track playback state
  currentStep, pendulumDir, clockPhase,
  swingAccumulator, stepParity, pendingSwingGate, pendingSwingStep,
  outputPitch, outputStep, trackClockPhase, trackSubStep, gatePulse,
  \* edge detectors
  clockTrigger, resetTrigger, sceneTriggers, copyTrigger, deleteTrigger,
  runTrigger, rstButtonTrigger, gateButtonStates,
  \* clock
  internalClockPhase, isRunning, clockPeriod, sinceRise,
  clockOutputPulse, resetOutputPulse,
  \* the patch record the host keeps (dataToJson's last result), and the
  \* store it was taken from
  savedJ, savedFrom,
  \* observation of the last step taken: its kind, its inputs and what it did
  obs

modvars ==
  <<scenes, currentScene, copySourceScene, deleteMode, params,
    currentStep, pendulumDir, clockPhase,
    swingAccumulator, stepParity, pendingSwingGate, pendingSwingStep,
    outputPitch, outputStep, trackClockPhase, trackSubStep, gatePulse,
    clockTrigger, resetTrigger, sceneTriggers, copyTrigger, deleteTrigger,
    runTrigger, rstButtonTrigger, gateButtonStates,
    internalClockPhase, isRunning, clockPeriod, sinceRise,
    clockOutputPulse, resetOutputPulse>>

host == <<savedJ, savedFrom>>

vars == <<modvars, host, obs>>


(* The Sequencer object as one record, for the handlers below. *)
Mod ==
  [scenes |-> scenes, currentScene |-> currentScene,
   copySourceScene |-> copySourceScene, deleteMode |-> deleteMode,
   params |-> params,
   currentStep |-> currentStep, pendulumDir |-> pendulumDir,
   clockPhase |-> clockPhase, swingAccumulator |-> swingAccumulator,
   stepParity |-> stepParity, pendingSwingGate |-> pendingSwingGate,
   pendingSwingStep |-> pendingSwingStep, outputPitch |-> outputPitch,
   outputStep |-> outputStep, trackClockPhase |-> trackClockPhase,
   trackSubStep |-> trackSubStep, gatePulse |-> gatePulse,
   clockTrigger |-> clockTrigger, resetTrigger |-> resetTrigger,
   sceneTriggers |-> sceneTriggers, copyTrigger |-> copyTrigger,
   deleteTrigger |-> deleteTrigger, runTrigger |-> runTrigger,
   rstButtonTrigger |-> rstButtonTrigger,
   gateButtonStates |-> gateButtonStates,
   internalClockPhase |-> internalClockPhase, isRunning |-> isRunning,
   clockPeriod |-> clockPeriod, sinceRise |-> sinceRise,
   clockOutputPulse |-> clockOutputPulse,
   resetOutputPulse |-> resetOutputPulse]

Assign(m) ==
  /\ scenes' = m.scenes
  /\ currentScene' = m.currentScene
  /\ copySourceScene' = m.copySourceScene
  /\ deleteMode' = m.deleteMode
  /\ params' = m.params
  /\ currentStep' = m.currentStep
  /\ pendulumDir' = m.pendulumDir
  /\ clockPhase' = m.clockPhase
  /\ swingAccumulator' = m.swingAccumulator
  /\ stepParity' = m.stepParity
  /\ pendingSwingGate' = m.pendingSwingGate
  /\ pendingSwingStep' = m.pendingSwingStep
  /\ outputPitch' = m.outputPitch
  /\ outputStep' = m.outputStep
  /\ trackClockPhase' = m.trackClockPhase
  /\ trackSubStep' = m.trackSubStep
  /\ gatePulse' = m.gatePulse
  /\ clockTrigger' = m.clockTrigger
  /\ resetTrigger' = m.resetTrigger
  /\ sceneTriggers' = m.sceneTriggers
  /\ copyTrigger' = m.copyTrigger
  /\ deleteTrigger' = m.deleteTrigger
  /\ runTrigger' = m.runTrigger
  /\ rstButtonTrigger' = m.rstButtonTrigger
  /\ gateButtonStates' = m.gateButtonStates
  /\ internalClockPhase' = m.internalClockPhase
  /\ isRunning' = m.isRunning
  /\ clockPeriod' = m.clockPeriod
  /\ sinceRise' = m.sinceRise
  /\ clockOutputPulse' = m.clockOutputPulse
  /\ resetOutputPulse' = m.resetOutputPulse

(* ------------------------------------------------------------------ *)
(* Library primitives (rack::dsp), as the handlers use them            *)
(* ------------------------------------------------------------------ *)
(* dsp::SchmittTrigger::process(in) with the default thresholds 0 V and *)
(* 1 V: a high trigger goes low at in <= 0, a low one fires at in >= 1. *)
(* A new trigger is high, so a signal that is high at the first tick    *)
(* does not fire.                                                       *)
SchmittFired(state, v) == (~state) /\ v >= 10
SchmittNext(state, v)  == IF state THEN ~(v <= 0) ELSE v >= 10
BoolV(b) == IF b THEN 10 ELSE 0

(* dsp::PulseGenerator: trigger(d) keeps the longer of d and what       *)
(* remains; process(dt) is high while time remains.                     *)
PulseTrigger(remaining, duration) ==
  IF RLt(remaining, duration) THEN duration ELSE remaining
PulseHigh(remaining) == RLt(RInt(0), remaining)
PulseProcess(remaining, dt) ==
  IF PulseHigh(remaining) THEN RSub(remaining, RInt(dt)) ELSE remaining

(* ------------------------------------------------------------------ *)
(* Scene <-> knob mirroring                                            *)
(* ------------------------------------------------------------------ *)
Idx(t, s) == t * NUM_STEPS + s

loadSceneToParams(m) ==
  LET sc == m.scenes[m.currentScene]
  IN  [m EXCEPT
        !.params = [@ EXCEPT
          !.steps = [t \in Tracks |-> sc.tracks[t].stepCount],
          !.div   = [t \in Tracks |-> sc.tracks[t].divisionIndex],
          !.dir   = [t \in Tracks |-> sc.tracks[t].direction],
          !.pitch = [i \in 0 .. (NUM_TRACKS * NUM_STEPS - 1) |->
                       sc.tracks[i \div NUM_STEPS].pitches[i % NUM_STEPS]]]]

(* Knobs that are written into the first scene, whichever is current. *)
ReadKnobsFirstScene(m, c0) ==
  [m EXCEPT
    !.scenes[0].tracks =
       [t \in Tracks |->
          [@[t] EXCEPT
             !.stepCount     = m.params.steps[t],
             !.divisionIndex = m.params.div[t],
             !.direction     = m.params.dir[t],
             !.pitches       = [s \in Steps |-> m.params.pitch[Idx(t, s)]]]]]

(* process(), lines 318-330: the knobs are written into the scene that  *)
(* is current when the tick starts (c0).                                *)
ReadKnobs(m, c0) ==
  [m EXCEPT
    !.scenes[c0].tracks =
       [t \in Tracks |->
          [@[t] EXCEPT
             !.stepCount     = m.params.steps[t],
             !.divisionIndex = m.params.div[t],
             !.direction     = m.params.dir[t],
             !.pitches       = [s \in Steps |-> m.params.pitch[Idx(t, s)]]]]]

(* Gate buttons that invert their gates at every tick they are held. *)
GateTogglesWhileHeld(m, c0, pressed) ==
  [m EXCEPT
    !.scenes[c0].tracks =
       [t \in Tracks |->
          [@[t] EXCEPT
             !.gates = [s \in Steps |->
                          IF Idx(t, s) \in pressed
                          THEN ~m.scenes[c0].tracks[t].gates[s]
                          ELSE m.scenes[c0].tracks[t].gates[s]]]],
    !.gateButtonStates =
       [i \in 0 .. (NUM_TRACKS * NUM_STEPS - 1) |-> i \in pressed]]

(* process(), lines 332-343: a gate button that is pressed and was not  *)
(* pressed at the previous tick inverts its gate in scene c0.           *)
GateToggles(m, c0, pressed) ==
  [m EXCEPT
    !.scenes[c0].tracks =
       [t \in Tracks |->
          [@[t] EXCEPT
             !.gates = [s \in Steps |->
                          IF Idx(t, s) \in pressed
                             /\ ~m.gateButtonStates[Idx(t, s)]
                          THEN ~m.scenes[c0].tracks[t].gates[s]
                          ELSE m.scenes[c0].tracks[t].gates[s]]]],
    !.gateButtonStates =
       [i \in 0 .. (NUM_TRACKS * NUM_STEPS - 1) |-> i \in pressed]]

(* A reset that leaves the pendulum signs as they are. *)
HandleResetKeepsSign(m, in) ==
  LET fromInput  == SchmittFired(m.resetTrigger, in.resetV)
      fromButton == SchmittFired(m.rstButtonTrigger, BoolV(in.rstBtn))
      hit        == fromInput \/ fromButton
      pulse      == IF hit THEN PulseTrigger(m.resetOutputPulse, RInt(1))
                    ELSE m.resetOutputPulse
  IN  [m EXCEPT
        !.resetTrigger = SchmittNext(@, in.resetV),
        !.rstButtonTrigger = SchmittNext(@, BoolV(in.rstBtn)),
        !.currentStep = IF hit THEN [t \in Tracks |-> 0] ELSE @,
        !.clockPhase  = IF hit THEN [t \in Tracks |-> 0] ELSE @,
        !.internalClockPhase = IF hit THEN 0 ELSE @,
        !.resetOutputPulse = PulseProcess(pulse, in.sampleTime),
        !.didReset = hit]

(* process(), lines 345-359: reset from the input or the button. *)
HandleReset(m, in) ==
  LET fromInput  == SchmittFired(m.resetTrigger, in.resetV)
      fromButton == SchmittFired(m.rstButtonTrigger, BoolV(in.rstBtn))
      hit        == fromInput \/ fromButton
      pulse      == IF hit THEN PulseTrigger(m.resetOutputPulse, RInt(1))
                    ELSE m.resetOutputPulse
  IN  [m EXCEPT
        !.resetTrigger = SchmittNext(@, in.resetV),
        !.rstButtonTrigger = SchmittNext(@, BoolV(in.rstBtn)),
        !.currentStep = IF hit THEN [t \in Tracks |-> 0] ELSE @,
        !.pendulumDir = IF hit THEN [t \in Tracks |-> 1] ELSE @,
        !.clockPhase  = IF hit THEN [t \in Tracks |-> 0] ELSE @,
        !.internalClockPhase = IF hit THEN 0 ELSE @,
        !.resetOutputPulse = PulseProcess(pulse, in.sampleTime),
        !.didReset = hit]

(* process(), lines 361-369: scene-select CV.  (int)sceneCV truncates   *)
(* toward zero, then the index is clamped to 0 .. NUM_SCENES-1.         *)
SceneCVIndex(cv) == ClampInt(TruncDiv(cv, 10), 0, NUM_SCENES - 1)

(* A CV switch that does not look at the target's isEmpty flag. *)
HandleSceneCVAnyScene(m, in) ==
  LET newScene == SceneCVIndex(in.cv)
  IN  IF in.cvConn /\ newScene # m.currentScene
      THEN loadSceneToParams([m EXCEPT !.currentScene = newScene,
                                       !.cvSwitched = TRUE])
      ELSE m

HandleSceneCV(m, in) ==
  LET newScene == SceneCVIndex(in.cv)
  IN  IF in.cvConn /\ newScene # m.currentScene /\ ~m.scenes[newScene].isEmpty
      THEN loadSceneToParams([m EXCEPT !.currentScene = newScene,
                                       !.cvSwitched = TRUE])
      ELSE m

(* A paste that takes the scene that is current instead of the copy     *)
(* source.                                                              *)
PasteFromCurrent(m, s) ==
  loadSceneToParams(
    [m EXCEPT !.scenes[s] = [m.scenes[m.currentScene] EXCEPT !.isEmpty = FALSE],
              !.copySourceScene = -1,
              !.currentScene = s,
              !.ops = Append(@, [op |-> "paste", s |-> s,
                                 src |-> m.copySourceScene,
                                 cur |-> m.currentScene])])

(* process(), lines 374-380: paste the copy source into scene s. *)
PasteScene(m, s) ==
  loadSceneToParams(
    [m EXCEPT !.scenes[s] = [m.scenes[m.copySourceScene] EXCEPT !.isEmpty = FALSE],
              !.copySourceScene = -1,
              !.currentScene = s,
              !.ops = Append(@, [op |-> "paste", s |-> s,
                                 src |-> m.copySourceScene,
                                 cur |-> m.currentScene])])

(* A delete that leaves delete mode armed. *)
DeleteKeepsMode(m, s) ==
  LET d == [m EXCEPT !.scenes[s] = SceneData,
                     !.ops = Append(@, [op |-> "delete", s |-> s, src |-> -1,
                                        cur |-> m.currentScene])]
  IN  IF m.currentScene = s
      THEN loadSceneToParams([d EXCEPT !.currentScene = 0])
      ELSE d

(* A delete that stays on the deleted scene. *)
DeleteSceneStays(m, s) ==
  [m EXCEPT !.scenes[s] = SceneData,
            !.deleteMode = FALSE,
            !.ops = Append(@, [op |-> "delete", s |-> s, src |-> -1,
                               cur |-> m.currentScene])]

(* process(), lines 381-388: delete scene s (s # 0). *)
DeleteScene(m, s) ==
  LET d == [m EXCEPT !.scenes[s] = SceneData,
                     !.deleteMode = FALSE,
                     !.ops = Append(@, [op |-> "delete", s |-> s, src |-> -1,
                                        cur |-> m.currentScene])]
  IN  IF m.currentScene = s
      THEN loadSceneToParams([d EXCEPT !.currentScene = 0])
      ELSE d

(* A selection that also leaves delete mode. *)
SelectSceneDisarms(m, s) ==
  LET f == IF m.scenes[s].isEmpty
           THEN [m EXCEPT !.scenes[s] =
                            [m.scenes[m.currentScene] EXCEPT !.isEmpty = FALSE]]
           ELSE m
  IN  loadSceneToParams(
        [f EXCEPT !.currentScene = s,
                  !.deleteMode = FALSE,
                  !.ops = Append(@, [op |-> IF m.scenes[s].isEmpty
                                            THEN "clone" ELSE "select",
                                     s |-> s, src |-> -1,
                                     cur |-> m.currentScene])])

(* A selection that does not fill an empty scene. *)
SelectSceneNoClone(m, s) ==
  loadSceneToParams(
    [m EXCEPT !.currentScene = s,
              !.ops = Append(@, [op |-> "select", s |-> s, src |-> -1,
                                 cur |-> m.currentScene])])

(* process(), lines 389-398: normal selection; an empty scene is first  *)
(* filled with the current scene's data.                                *)
SelectScene(m, s) ==
  LET f == IF m.scenes[s].isEmpty
           THEN [m EXCEPT !.scenes[s] =
                            [m.scenes[m.currentScene] EXCEPT !.isEmpty = FALSE]]
           ELSE m
  IN  loadSceneToParams(
        [f EXCEPT !.currentScene = s,
                  !.ops = Append(@, [op |-> IF m.scenes[s].isEmpty
                                            THEN "clone" ELSE "select",
                                     s |-> s, src |-> -1,
                                     cur |-> m.currentScene])])

(* A scene button whose delete branch also takes scene 0. *)
SceneButtonDeletesAny(m, s, pressed) ==
  LET fired == SchmittFired(m.sceneTriggers[s], BoolV(pressed))
      n     == [m EXCEPT !.sceneTriggers[s] = SchmittNext(@, BoolV(pressed))]
  IN  IF ~fired THEN n
      ELSE IF n.copySourceScene >= 0 THEN PasteScene(n, s)
      ELSE IF n.deleteMode THEN DeleteScene(n, s)
      ELSE SelectScene(n, s)

(* process(), lines 373-399: one scene button. *)
SceneButton(m, s, pressed) ==
  LET fired == SchmittFired(m.sceneTriggers[s], BoolV(pressed))
      n     == [m EXCEPT !.sceneTriggers[s] = SchmittNext(@, BoolV(pressed))]
  IN  IF ~fired THEN n
      ELSE IF n.copySourceScene >= 0 THEN PasteScene(n, s)
      ELSE IF n.deleteMode /\ s # 0 THEN DeleteScene(n, s)
      ELSE SelectScene(n, s)

(* process(), lines 372-400: the buttons are handled in index order. *)
RECURSIVE SceneButtonsFrom(_, _, _)
SceneButtonsFrom(m, s, pressed) ==
  IF s >= NUM_SCENES THEN m
  ELSE SceneButtonsFrom(SceneButton(m, s, s \in pressed), s + 1, pressed)

HandleSceneButtons(m, in) == SceneButtonsFrom(m, 0, in.sceneBtn)

(* A copy toggle that leaves delete mode as it is. *)
HandleCopyButtonKeepsDelete(m, in) ==
  LET n == [m EXCEPT !.copyTrigger = SchmittNext(@, BoolV(in.copyBtn))]
  IN  IF SchmittFired(m.copyTrigger, BoolV(in.copyBtn))
      THEN [n EXCEPT !.copySourceScene = IF m.copySourceScene < 0
                                         THEN m.currentScene ELSE -1,
                     !.copyEdge = TRUE]
      ELSE n

(* process(), lines 402-410: copy button (toggle). *)
HandleCopyButton(m, in) ==
  LET n == [m EXCEPT !.copyTrigger = SchmittNext(@, BoolV(in.copyBtn))]
  IN  IF SchmittFired(m.copyTrigger, BoolV(in.copyBtn))
      THEN [n EXCEPT !.deleteMode = FALSE,
                     !.copySourceScene = IF m.copySourceScene < 0
                                         THEN m.currentScene ELSE -1,
                     !.copyEdge = TRUE]
      ELSE n

(* process(), lines 412-416: delete button (toggle). *)
HandleDeleteButton(m, in) ==
  LET n == [m EXCEPT !.deleteTrigger = SchmittNext(@, BoolV(in.delBtn))]
  IN  IF SchmittFired(m.deleteTrigger, BoolV(in.delBtn))
      THEN [n EXCEPT !.copySourceScene = -1,
                     !.deleteMode = ~m.deleteMode,
                     !.delEdge = TRUE]
      ELSE n

(* process(), lines 418-421: run/stop button (toggle). *)
HandleRunButton(m, in) ==
  LET n == [m EXCEPT !.runTrigger = SchmittNext(@, BoolV(in.runBtn))]
  IN  IF SchmittFired(m.runTrigger, BoolV(in.runBtn))
      THEN [n EXCEPT !.isRunning = ~m.isRunning]
      ELSE n

(* ------------------------------------------------------------------ *)
(* ClockEngine: process(), lines 423-473                               *)
(* ------------------------------------------------------------------ *)
(* sinceRise stands for elapsedTime - lastClockRiseTime, the only way   *)
(* the two are read (line 461).  An interval of 4 s or more is rejected *)
(* whatever its length, so the count stops there.                       *)
SinceRiseAfter(since, dt) == IF since + dt >= 4000 THEN 4000 ELSE since + dt

InternalClock(m, in) ==
  LET ph == m.internalClockPhase + m.params.bpm * in.sampleTime
  IN  IF ph >= 60000
      THEN [m EXCEPT !.internalClockPhase = ph - 60000,
                     !.clk = TRUE,
                     !.clockOutputPulse = PulseTrigger(@, RInt(1))]
      ELSE [m EXCEPT !.internalClockPhase = ph]

ExternalClock(m, in) ==
  LET rising == SchmittFired(m.clockTrigger, in.clockV)
      n      == [m EXCEPT !.clockTrigger = SchmittNext(@, in.clockV)]
  IN  IF rising
      THEN [n EXCEPT !.clockPeriod = IF m.sinceRise > 10 /\ m.sinceRise < 4000
                                     THEN RInt(m.sinceRise) ELSE @,
                     !.sinceRise = 0,
                     !.clk = TRUE,
                     !.clockOutputPulse = PulseTrigger(@, RInt(1))]
      ELSE n

(* A clock that runs whether the sequencer runs or not. *)
HandleClockAlways(m, in) ==
  LET a == [m EXCEPT !.sinceRise = SinceRiseAfter(@, in.sampleTime),
                     !.clockPeriod = Rat(60000, m.params.bpm)]
      b == IF ~in.clockConn THEN InternalClock(a, in)
           ELSE ExternalClock(a, in)
  IN  [b EXCEPT !.clockOutputPulse = PulseProcess(@, in.sampleTime)]

HandleClock(m, in) ==
  LET a == [m EXCEPT !.sinceRise = SinceRiseAfter(@, in.sampleTime),
                     !.clockPeriod = Rat(60000, m.params.bpm)]
      b == IF ~a.isRunning THEN a
           ELSE IF ~in.clockConn THEN InternalClock(a, in)
           ELSE ExternalClock(a, in)
  IN  [b EXCEPT !.clockOutputPulse = PulseProcess(@, in.sampleTime)]

(* ------------------------------------------------------------------ *)
(* TrackSequencer                                                      *)
(* ------------------------------------------------------------------ *)
(* advanceStep(), lines 287-307, as <<currentStep, pendulumDir>>. *)
(* A forward step that wraps at the length of the step array. *)
AdvanceForwardFullLength(step, steps) == CMod(step + 1, NUM_STEPS)

AdvanceForward(step, steps) == CMod(step + 1, steps)
(* A reverse step that leaves the wrap to the remainder operator. *)
AdvanceReverseBare(step, steps) == CMod(step - 1, steps)

AdvanceReverse(step, steps) == CMod(step - 1 + steps, steps)
(* A pendulum that turns only after it has passed the last step. *)
AdvancePendulumLate(step, pdir, steps) ==
  LET n == step + pdir
  IN  IF n > steps - 1 THEN <<steps - 1, -1>>
      ELSE IF n <= 0 THEN <<0, 1>>
      ELSE <<n, pdir>>

AdvancePendulum(step, pdir, steps) ==
  LET n == step + pdir
  IN  IF n >= steps - 1 THEN <<steps - 1, -1>>
      ELSE IF n <= 0 THEN <<0, 1>>
      ELSE <<n, pdir>>
AdvanceRandom(rnd, steps) == CMod(rnd, steps)

advanceStep(m, t, rnd) ==
  LET td    == m.scenes[m.currentScene].tracks[t]
      steps == td.stepCount
      cur   == m.currentStep[t]
      r     == CASE td.direction = DIR_FORWARD -> <<AdvanceForward(cur, steps), m.pendulumDir[t]>>
                 [] td.direction = DIR_REVERSE -> <<AdvanceReverse(cur, steps), m.pendulumDir[t]>>
                 [] td.direction = DIR_PENDULUM -> AdvancePendulum(cur, m.pendulumDir[t], steps)
                 [] td.direction = DIR_RANDOM -> <<AdvanceRandom(rnd, steps), m.pendulumDir[t]>>
                 [] OTHER -> <<cur, m.pendulumDir[t]>>
  IN  [m EXCEPT !.currentStep[t] = r[1], !.pendulumDir[t] = r[2]]

(* A division mode that advances only when the phase passes 1. *)
DivisionModeStrict(phase, division, clockRising) ==
  LET p == phase + (4 * division[2]) \div division[1]
  IN  IF ~clockRising THEN <<phase, FALSE>>
      ELSE IF p > 4 THEN <<p - 4, TRUE>>
      ELSE <<p, FALSE>>

(* Division mode, lines 487-495: <<clockPhase, shouldAdvance>>, the     *)
(* phase in quarters.                                                   *)
DivisionMode(phase, division, clockRising) ==
  LET p == phase + (4 * division[2]) \div division[1]
  IN  IF ~clockRising THEN <<phase, FALSE>>
      ELSE IF p >= 4 THEN <<p - 4, TRUE>>
      ELSE <<p, FALSE>>

(* Multiplication mode, lines 496-524:                                  *)
(* <<trackClockPhase, trackSubStep, shouldAdvance>>.  A phase of 4 s or *)
(* more is past the last sub-step of every clock period, so the count   *)
(* stops there.                                                         *)
StepsPerClock(division) == division[2] \div division[1]

(* A multiplication mode whose clock edge leaves the sub-step counter. *)
MultiplicationModeKeepsSubStep(tcp, sub, division, clockRising, running, period, dt) ==
  LET n        == StepsPerClock(division)
      ph       == IF tcp + dt >= 4000 THEN 4000 ELSE tcp + dt
      raw      == RFloor(Rat(ph * n * period[2], period[1]))
      expected == IF raw >= n THEN n - 1 ELSE raw
  IN  IF clockRising THEN <<0, sub, TRUE>>
      ELSE IF running /\ RLt(RInt(0), period)
           THEN IF expected > sub THEN <<ph, expected, TRUE>>
                ELSE <<ph, sub, FALSE>>
      ELSE <<tcp, sub, FALSE>>

MultiplicationMode(tcp, sub, division, clockRising, running, period, dt) ==
  LET n        == StepsPerClock(division)
      ph       == IF tcp + dt >= 4000 THEN 4000 ELSE tcp + dt
      raw      == RFloor(Rat(ph * n * period[2], period[1]))
      expected == IF raw >= n THEN n - 1 ELSE raw
  IN  IF clockRising THEN <<0, 0, TRUE>>
      ELSE IF running /\ RLt(RInt(0), period)
           THEN IF expected > sub THEN <<ph, expected, TRUE>>
                ELSE <<ph, sub, FALSE>>
      ELSE <<tcp, sub, FALSE>>

(* Swing delay, lines 532-537, in ms. *)
SwingDelay(parity, swing, period, division) ==
  IF parity = 1 /\ swing > 0
  THEN RMul(RMul(period, IF division[1] >= division[2]
                         THEN Rat(division[1], division[2]) ELSE RInt(1)),
            Rat(swing, 200))
  ELSE RInt(0)

(* Gate length, lines 483-485, in ms. *)
GateDuration(period, division, pw) ==
  LET stepDuration == RMul(period, Rat(division[1], division[2]))
  IN  RClamp(RMul(stepDuration, Rat(pw, 100)), RInt(1),
             RMul(stepDuration, Rat(95, 100)))

(* An advance that shows a gate-disabled step at once, swung or not. *)
OnAdvanceShowsDisabled(m, t, c0, in, gateDuration) ==
  LET a      == advanceStep(m, t, in.rnd[t])
      td     == a.scenes[c0].tracks[t]
      div    == DIVISIONS[td.divisionIndex]
      parity == (m.stepParity[t] + 1) % 2
      delay  == SwingDelay(parity, m.params.swing, m.clockPeriod, div)
      step   == a.currentStep[t]
      swung  == RLt(RInt(1), delay)
      b      == [a EXCEPT !.stepParity[t] = parity, !.adv[t] = TRUE,
                          !.from[t] = m.currentStep[t],
                          !.swung[t] = IF swung THEN delay ELSE RInt(0)]
  IN  IF td.gates[step]
      THEN IF swung
           THEN [b EXCEPT !.swingAccumulator[t] = delay,
                          !.pendingSwingGate[t] = TRUE,
                          !.pendingSwingStep[t] = step,
                          !.armed[t] = TRUE]
           ELSE [b EXCEPT !.gatePulse[t] = PulseTrigger(@, gateDuration),
                          !.outputPitch[t] = td.pitches[step],
                          !.outputStep[t] = step,
                          !.fire[t] = "now",
                          !.shown[t] = TRUE]
      ELSE [b EXCEPT !.outputPitch[t] = td.pitches[step],
                     !.outputStep[t] = step,
                     !.shown[t] = TRUE]

(* Lines 526-559: the advance, and the gate or its swing delay.  td is  *)
(* the track of the scene that was current when the tick started.       *)
OnAdvance(m, t, c0, in, gateDuration) ==
  LET a      == advanceStep(m, t, in.rnd[t])
      td     == a.scenes[c0].tracks[t]
      div    == DIVISIONS[td.divisionIndex]
      parity == (m.stepParity[t] + 1) % 2
      delay  == SwingDelay(parity, m.params.swing, m.clockPeriod, div)
      step   == a.currentStep[t]
      swung  == RLt(RInt(1), delay)
      b      == [a EXCEPT !.stepParity[t] = parity, !.adv[t] = TRUE,
                          !.from[t] = m.currentStep[t],
                          !.swung[t] = IF swung THEN delay ELSE RInt(0)]
  IN  IF td.gates[step]
      THEN IF swung
           THEN [b EXCEPT !.swingAccumulator[t] = delay,
                          !.pendingSwingGate[t] = TRUE,
                          !.pendingSwingStep[t] = step,
                          !.armed[t] = TRUE]
           ELSE [b EXCEPT !.gatePulse[t] = PulseTrigger(@, gateDuration),
                          !.outputPitch[t] = td.pitches[step],
                          !.outputStep[t] = step,
                          !.fire[t] = "now",
                          !.shown[t] = TRUE]
      ELSE IF ~swung
           THEN [b EXCEPT !.outputPitch[t] = td.pitches[step],
                          !.outputStep[t] = step,
                          !.shown[t] = TRUE]
           ELSE b

(* Lines 561-572: the swing countdown, run at every tick. *)
SwingCountdown(m, t, c0, in, gateDuration) ==
  LET acc == RSub(m.swingAccumulator[t], RInt(in.sampleTime))
  IN  IF m.pendingSwingGate[t] /\ RLt(RInt(0), m.swingAccumulator[t])
      THEN IF RLe(acc, RInt(0))
           THEN [m EXCEPT
                  !.swingAccumulator[t] = RInt(0),
                  !.gatePulse[t] = PulseTrigger(@, gateDuration),
                  !.outputPitch[t] =
                     m.scenes[c0].tracks[t].pitches[m.pendingSwingStep[t]],
                  !.outputStep[t] = m.pendingSwingStep[t],
                  !.pendingSwingGate[t] = FALSE,
                  !.late[t] = TRUE]
           ELSE [m EXCEPT !.swingAccumulator[t] = acc]
      ELSE m

(* The behaviour of advanceStep() and of the reads that follow it is    *)
(* undefined when the step count is 0 in "% steps" (lines 290, 293,     *)
(* 306) or when the step it yields is not an index of pitches[] and     *)
(* gates[] (lines 540-557, 591-598).                                    *)
AdvanceUndefined(m, t, rnd) ==
  LET td == m.scenes[m.currentScene].tracks[t]
  IN  \/ /\ td.stepCount = 0
         /\ td.direction \in {DIR_FORWARD, DIR_REVERSE, DIR_RANDOM}
      \/ advanceStep(m, t, rnd).currentStep[t] \notin Steps

(* Lines 476-578 and 584-598 for one track.  ub records that the tick   *)
(* has left defined behaviour: a division index that is not an index of *)
(* DIVISIONS (line 478), or an undefined advance.                       *)
TrackTick(m, t, c0, in) ==
  IF m.ub \/ m.scenes[c0].tracks[t].divisionIndex \notin 0 .. (NUM_DIVISIONS - 1)
  THEN [m EXCEPT !.ub = TRUE]
  ELSE
  LET td   == m.scenes[c0].tracks[t]
      div  == DIVISIONS[td.divisionIndex]
      gd   == GateDuration(m.clockPeriod, div, m.params.pw)
      dm   == DivisionMode(m.clockPhase[t], div, m.clk)
      mm   == MultiplicationMode(m.trackClockPhase[t], m.trackSubStep[t], div,
                                 m.clk, m.isRunning, m.clockPeriod,
                                 in.sampleTime)
      a    == IF div[1] >= div[2]
              THEN [m EXCEPT !.clockPhase[t] = dm[1]]
              ELSE [m EXCEPT !.trackClockPhase[t] = mm[1],
                             !.trackSubStep[t] = mm[2]]
      should == IF div[1] >= div[2] THEN dm[2] ELSE mm[3]
      b    == IF should THEN OnAdvance(a, t, c0, in, gd) ELSE a
      c    == SwingCountdown(b, t, c0, in, gd)
  IN  IF should /\ AdvanceUndefined(a, t, in.rnd[t])
      THEN [m EXCEPT !.ub = TRUE]
      ELSE IF c.isRunning
      THEN [c EXCEPT !.gateOn[t] = PulseHigh(c.gatePulse[t]),
                     !.gatePulse[t] = PulseProcess(@, in.sampleTime)]
      ELSE [c EXCEPT !.gateOn[t] = c.scenes[c0].tracks[t].gates[c.currentStep[t]]]

RECURSIVE TracksFrom(_, _, _, _)
TracksFrom(m, t, c0, in) ==
  IF t >= NUM_TRACKS THEN m
  ELSE TracksFrom(TrackTick(m, t, c0, in), t + 1, c0, in)

(* ------------------------------------------------------------------ *)
(* Controller: process(), lines 310-653                                *)
(* ------------------------------------------------------------------ *)
(* What a tick did, kept beside the object for the properties: ops is   *)
(* the list of scene-button operations, each with the button s, the     *)
(* copy source src (-1: none) and the scene cur that was current; from  *)
(* is the step an advance of the tick started from (-1: no advance),    *)
(* swung the swing delay of that advance when above 1 ms (else 0), fire *)
(* "now" when the advance triggered the gate at once, late whether a    *)
(* swing countdown ended and triggered the gate, armed whether the      *)
(* advance started a swing countdown, shown whether the advance put its *)
(* step on the outputs at once.                                         *)
Trace0 ==
  [didReset |-> FALSE, cvSwitched |-> FALSE, ops |-> <<>>,
   copyEdge |-> FALSE, delEdge |-> FALSE, clk |-> FALSE,
   adv  |-> [t \in Tracks |-> FALSE],
   from |-> [t \in Tracks |-> -1],
   fire |-> [t \in Tracks |-> "no"],
   late |-> [t \in Tracks |-> FALSE],
   swung |-> [t \in Tracks |-> RInt(0)],
   gateOn |-> [t \in Tracks |-> FALSE],
   armed |-> [t \in Tracks |-> FALSE],
   shown |-> [t \in Tracks |-> FALSE],
   ub |-> FALSE]

(* The scenes after the knob reads and gate toggles of a tick. *)
AfterEdits(m, in) ==
  GateToggles(ReadKnobs(m, m.currentScene), m.currentScene, in.gateBtn)

AfterButtons(m, in) ==
  HandleRunButton(
    HandleDeleteButton(
      HandleCopyButton(
        HandleSceneButtons(
          HandleSceneCV(
            HandleReset(AfterEdits(m, in), in), in), in), in), in), in)

(* A tick that computes the clock before it handles the buttons. *)
ProcessResultClockFirst(m, in) ==
  TracksFrom(AfterButtons(HandleClock(m, in), in), 0, m.currentScene, in)

ProcessResult(m, in) ==
  TracksFrom(HandleClock(AfterButtons(m, in), in), 0, m.currentScene, in)

(* ------------------------------------------------------------------ *)
(* Construction, module reset, knobs                                   *)
(* ------------------------------------------------------------------ *)
DefaultParams ==
  [steps |-> [t \in Tracks |-> 8],
   div   |-> [t \in Tracks |-> 2],
   dir   |-> [t \in Tracks |-> DIR_FORWARD],
   pitch |-> [i \in 0 .. (NUM_TRACKS * NUM_STEPS - 1) |-> 0],
   bpm   |-> 120,
   swing |-> 0,
   pw    |-> 50]

FreshScenes == [i \in Scenes |-> IF i = 0 THEN [SceneData EXCEPT !.isEmpty = FALSE]
                                 ELSE SceneData]

(* onReset(), lines 254-280.  The host resets the knobs to their        *)
(* defaults before it calls onReset().                                  *)
onReset(m) ==
  [m EXCEPT
    !.scenes = FreshScenes,
    !.currentScene = 0,
    !.copySourceScene = -1,
    !.deleteMode = FALSE,
    !.params = DefaultParams,
    !.currentStep = [t \in Tracks |-> 0],
    !.pendulumDir = [t \in Tracks |-> 1],
    !.clockPhase = [t \in Tracks |-> 0],
    !.swingAccumulator = [t \in Tracks |-> RInt(0)],
    !.stepParity = [t \in Tracks |-> 0],
    !.pendingSwingGate = [t \in Tracks |-> FALSE],
    !.pendingSwingStep = [t \in Tracks |-> 0],
    !.outputPitch = [t \in Tracks |-> 0],
    !.outputStep = [t \in Tracks |-> 0],
    !.trackClockPhase = [t \in Tracks |-> 0],
    !.trackSubStep = [t \in Tracks |-> 0],
    !.isRunning = TRUE,
    !.internalClockPhase = 0,
    !.sinceRise = 0]

(* ------------------------------------------------------------------ *)
(* PersistenceCodec: dataToJson(), dataFromJson(), lines 680-777       *)
(* A JSON object is a record, a JSON array a sequence; a field that is  *)
(* absent is not in the record's domain.                                *)
(* ------------------------------------------------------------------ *)
TrackToJson(td) ==
  [stepCount |-> td.stepCount,
   divisionIndex |-> td.divisionIndex,
   direction |-> td.direction,
   pitches |-> [k \in 1 .. NUM_STEPS |-> td.pitches[k - 1]],
   gates |-> [k \in 1 .. NUM_STEPS |-> td.gates[k - 1]]]

SceneToJson(sc) ==
  [isEmpty |-> sc.isEmpty,
   tracks |-> [k \in 1 .. NUM_TRACKS |-> TrackToJson(sc.tracks[k - 1])]]

dataToJson(m) ==
  [currentScene |-> m.currentScene,
   isRunning |-> m.isRunning,
   scenes |-> [k \in 1 .. NUM_SCENES |-> SceneToJson(m.scenes[k - 1])]]

Has(j, f) == f \in DOMAIN j

TrackFromJsonNoDirection(td, j) ==
  [stepCount |-> IF Has(j, "stepCount") THEN j.stepCount ELSE td.stepCount,
   divisionIndex |-> IF Has(j, "divisionIndex") THEN j.divisionIndex
                     ELSE td.divisionIndex,
   direction |-> td.direction,
   pitches |-> [s \in Steps |->
                  IF Has(j, "pitches") /\ s < Len(j.pitches)
                  THEN j.pitches[s + 1] ELSE td.pitches[s]],
   gates |-> [s \in Steps |->
                IF Has(j, "gates") /\ s < Len(j.gates)
                THEN j.gates[s + 1] ELSE td.gates[s]]]

TrackFromJsonDefaultStepCount(td, j) ==
  [stepCount |-> IF Has(j, "stepCount") THEN j.stepCount ELSE NUM_STEPS,
   divisionIndex |-> IF Has(j, "divisionIndex") THEN j.divisionIndex
                     ELSE td.divisionIndex,
   direction |-> IF Has(j, "direction") THEN j.direction ELSE td.direction,
   pitches |-> [s \in Steps |->
                  IF Has(j, "pitches") /\ s < Len(j.pitches)
                  THEN j.pitches[s + 1] ELSE td.pitches[s]],
   gates |-> [s \in Steps |->
                IF Has(j, "gates") /\ s < Len(j.gates)
                THEN j.gates[s + 1] ELSE td.gates[s]]]

TrackFromJson(td, j) ==
  [stepCount |-> IF Has(j, "stepCount") THEN j.stepCount ELSE td.stepCount,
   divisionIndex |-> IF Has(j, "divisionIndex") THEN j.divisionIndex
                     ELSE td.divisionIndex,
   direction |-> IF Has(j, "direction") THEN j.direction ELSE td.direction,
   pitches |-> [s \in Steps |->
                  IF Has(j, "pitches") /\ s < Len(j.pitches)
                  THEN j.pitches[s + 1] ELSE td.pitches[s]],
   gates |-> [s \in Steps |->
                IF Has(j, "gates") /\ s < Len(j.gates)
                THEN j.gates[s + 1] ELSE td.gates[s]]]

SceneFromJson(sc, j) ==
  [isEmpty |-> IF Has(j, "isEmpty") THEN j.isEmpty ELSE sc.isEmpty,
   tracks |-> [t \in Tracks |->
                 IF Has(j, "tracks") /\ t < Len(j.tracks)
                 THEN TrackFromJson(sc.tracks[t], j.tracks[t + 1])
                 ELSE sc.tracks[t]]]

(* A load that leaves the knobs where they are. *)
dataFromJsonKeepsKnobs(m, rootJ) ==
  [m EXCEPT
    !.currentScene = IF Has(rootJ, "currentScene") THEN rootJ.currentScene ELSE @,
    !.isRunning = IF Has(rootJ, "isRunning") THEN rootJ.isRunning ELSE @,
    !.scenes = [i \in Scenes |->
                  IF Has(rootJ, "scenes") /\ i < Len(rootJ.scenes)
                  THEN SceneFromJson(m.scenes[i], rootJ.scenes[i + 1])
                  ELSE m.scenes[i]]]

dataFromJson(m, rootJ) ==
  loadSceneToParams(
    [m EXCEPT
      !.currentScene = IF Has(rootJ, "currentScene") THEN rootJ.currentScene ELSE @,
      !.isRunning = IF Has(rootJ, "isRunning") THEN rootJ.isRunning ELSE @,
      !.scenes = [i \in Scenes |->
                    IF Has(rootJ, "scenes") /\ i < Len(rootJ.scenes)
                    THEN SceneFromJson(m.scenes[i], rootJ.scenes[i + 1])
                    ELSE m.scenes[i]]])

(* ------------------------------------------------------------------ *)
(* The inputs of one tick                                              *)
(* ------------------------------------------------------------------ *)
(* turn: the knobs the user moved since the last tick, as               *)
(* <<knob, index, value>>; the remaining fields are what process()      *)
(* reads from the buttons, the input jacks and the engine.              *)
Quiet ==
  [turn |-> {}, sampleTime |-> 50,
   gateBtn |-> {}, resetV |-> 0, rstBtn |-> FALSE,
   cvConn |-> FALSE, cv |-> 0,
   sceneBtn |-> {}, copyBtn |-> FALSE, delBtn |-> FALSE, runBtn |-> FALSE,
   clockConn |-> FALSE, clockV |-> 0,
   rnd |-> [t \in Tracks |-> 0]]

(* Param::setValue by the user interface. *)
ApplyTurn(p, k) ==
  CASE k[1] = "steps" -> [p EXCEPT !.steps[k[2]] = k[3]]
    [] k[1] = "div"   -> [p EXCEPT !.div[k[2]] = k[3]]
    [] k[1] = "dir"   -> [p EXCEPT !.dir[k[2]] = k[3]]
    [] k[1] = "pitch" -> [p EXCEPT !.pitch[k[2]] = k[3]]
    [] k[1] = "bpm"   -> [p EXCEPT !.bpm = k[3]]
    [] k[1] = "swing" -> [p EXCEPT !.swing = k[3]]
    [] k[1] = "pw"    -> [p EXCEPT !.pw = k[3]]

RECURSIVE ApplyTurns(_, _)
ApplyTurns(p, turns) ==
  IF turns = {} THEN p
  ELSE LET k == CHOOSE x \in turns : TRUE
       IN  ApplyTurns(ApplyTurn(p, k), turns \ {k})

Turned(m, in) == [m EXCEPT !.params = ApplyTurns(@, in.turn)]

(* ------------------------------------------------------------------ *)
(* Run counters kept beside the object (they are not program state)    *)
(* ------------------------------------------------------------------ *)
(* Division run of track t.  A run starts where the track's division    *)
(* phase is 0 (construction, reset, or the tick after an advance that   *)
(* used up the phase) and lasts while the division index stays the same *)
(* index of a ratio >= 1.  held is that index (-2: none yet, -1: no     *)
(* run), edges the clock edges of the run since its last advance.  gap  *)
(* is the count at this tick, before an advance clears it (-1: no run). *)
DivRun0 == [held |-> -2, edges |-> 0]

DivRunStep(o, m, r, idx, t) ==
  LET b == IF m.clockPhase[t] = 0 \/ r.didReset THEN DivRun0 ELSE o
      h == IF idx > 2 THEN -1
           ELSE IF b.held = -2 \/ b.held = idx THEN idx ELSE -1
      e == IF h < 0 THEN 0 ELSE b.edges + (IF r.clk THEN 1 ELSE 0)
  IN  [run |-> [held |-> h, edges |-> IF r.adv[t] THEN 0 ELSE e],
       gap |-> IF h < 0 THEN -1 ELSE e]

(* Multiplication run of track t: the ticks and the advances counted    *)
(* since the last clock edge (the edge's own advance included), while   *)
(* the track stays running on the internal clock, without reset, with   *)
(* the same division index idx > 2, tempo and sample time as at the     *)
(* edge (idx 0: no run).  done is the run that this tick's edge ended.  *)
MulRun0 == [idx |-> 0, ticks |-> 0, advs |-> 0, bpm |-> 0, dt |-> 0]

MulRunStep(o, r, in, idx, t) ==
  LET a    == IF r.adv[t] THEN 1 ELSE 0
      free == r.isRunning /\ ~in.clockConn /\ ~r.didReset /\ idx > 2
      same == o.idx = idx /\ o.bpm = r.params.bpm /\ o.dt = in.sampleTime
  IN  [run |-> IF r.clk
               THEN IF free
                    THEN [idx |-> idx, ticks |-> 0, advs |-> a,
                          bpm |-> r.params.bpm, dt |-> in.sampleTime]
                    ELSE MulRun0
               ELSE IF free /\ same
                    THEN [o EXCEPT !.ticks = @ + 1, !.advs = @ + a]
                    ELSE MulRun0,
       done |-> IF r.clk /\ free /\ same
                THEN [o EXCEPT !.ticks = @ + 1]
                ELSE MulRun0]

(* Pendulum run of track t: the number k of advances made since the     *)
(* track stood at step 0 with sign +1, counted modulo the bounce        *)
(* period, all of them pendulum advances under the same step count n    *)
(* (k = -1: no such run; n = 0: no advance yet).                        *)
PendPeriod(n) == IF n <= 1 THEN 1 ELSE 2 * (n - 1)
PendRun0 == [k |-> 0, n |-> 0]

PendRunStep(o, m, r, t) ==
  LET td  == r.scenes[r.currentScene].tracks[t]
      n   == td.stepCount
      pre == IF r.didReset THEN <<0, 1>>
             ELSE <<m.currentStep[t], m.pendulumDir[t]>>
      k0  == IF pre = <<0, 1>> THEN 0
             ELSE IF o.k >= 0 /\ o.n = n THEN o.k ELSE -1
  IN  IF r.adv[t]
      THEN IF td.direction = DIR_PENDULUM /\ k0 >= 0
           THEN [k |-> (k0 + 1) % PendPeriod(n), n |-> n]
           ELSE [k |-> -1, n |-> 0]
      ELSE IF r.didReset THEN PendRun0 ELSE o

(* No patch record. *)
NoPatch == [none |-> TRUE]

(* Swing run of track t: the step of the last advance whose swing delay *)
(* was above 1 ms, that delay, and the time since the tick of that      *)
(* advance, counted until it reaches the delay; the run ends at the     *)
(* next advance, at a reset, or in the tick after the delay was reached *)
(* (step -1: no run).                                                   *)
SwRun0 == [step |-> -1, since |-> 0, delay |-> RInt(0)]

SwRunStep(o, r, in, t) ==
  IF r.adv[t]
  THEN IF r.swung[t] # RInt(0)
       THEN [step |-> r.currentStep[t], since |-> 0, delay |-> r.swung[t]]
       ELSE SwRun0
  ELSE IF r.didReset \/ o.step < 0 \/ RLe(o.delay, RInt(o.since)) THEN SwRun0
  ELSE [o EXCEPT !.since = @ + in.sampleTime]

Obs0 ==
  [act |-> "init", knobs |-> DefaultParams, cvConn |-> FALSE, cv |-> 0,
   dt |-> 0, clockConn |-> FALSE, doc |-> NoPatch, changed |-> FALSE,
   didReset |-> FALSE, cvSwitched |-> FALSE, ops |-> <<>>,
   copyEdge |-> FALSE, delEdge |-> FALSE, clk |-> FALSE,
   adv |-> [t \in Tracks |-> FALSE], from |-> [t \in Tracks |-> -1],
   fire |-> [t \in Tracks |-> "no"], late |-> [t \in Tracks |-> FALSE],
   gateOn |-> [t \in Tracks |-> FALSE],
   armed |-> [t \in Tracks |-> FALSE],
   stale |-> [t \in Tracks |-> FALSE],
   sw   |-> [t \in Tracks |-> SwRun0],
   div  |-> [t \in Tracks |-> DivRun0],
   gap  |-> [t \in Tracks |-> 0],
   mul  |-> [t \in Tracks |-> MulRun0],
   done |-> [t \in Tracks |-> MulRun0],
   pend |-> [t \in Tracks |-> PendRun0]]

(* Whether the swing countdown that is pending at the end of a tick     *)
(* was armed before the step now on the outputs was advanced to: an     *)
(* advance has put its step on the outputs while the countdown was      *)
(* pending, in this tick or an earlier one, and the countdown has       *)
(* neither ended nor been armed anew since.                             *)
StaleStep(o, r, t) ==
  /\ r.pendingSwingGate[t]
  /\ RLt(RInt(0), r.swingAccumulator[t])
  /\ ~r.armed[t]
  /\ o \/ r.shown[t]

(* The observation of a step: the knob values process() read, the      *)
(* scene CV, the sample time, whether the clock input is patched, what  *)
(* the handlers did, the run counters, and the patch record a load      *)
(* read.  The division index the tracks of a tick read is that of the   *)
(* scene that was current when the tick started (line 311).             *)
Observe(o, m, r, in) ==
  LET idx(t) == r.scenes[m.currentScene].tracks[t].divisionIndex
      d == [t \in Tracks |-> DivRunStep(o.div[t], m, r, idx(t), t)]
      u == [t \in Tracks |-> MulRunStep(o.mul[t], r, in, idx(t), t)]
  IN  [act |-> "process", knobs |-> m.params,
       cvConn |-> in.cvConn, cv |-> IF in.cvConn THEN in.cv ELSE 0,
       dt |-> in.sampleTime, clockConn |-> in.clockConn, doc |-> NoPatch,
       didReset |-> r.didReset, cvSwitched |-> r.cvSwitched, ops |-> r.ops,
       copyEdge |-> r.copyEdge, delEdge |-> r.delEdge,
       clk |-> r.clk, adv |-> r.adv, from |-> r.from,
       fire |-> r.fire, late |-> r.late, gateOn |-> r.gateOn,
       armed |-> r.armed,
       stale |-> [t \in Tracks |-> StaleStep(o.stale[t], r, t)],
       sw   |-> [t \in Tracks |-> SwRunStep(o.sw[t], r, in, t)],
       div  |-> [t \in Tracks |-> d[t].run],
       gap  |-> [t \in Tracks |-> d[t].gap],
       mul  |-> [t \in Tracks |-> u[t].run],
       done |-> [t \in Tracks |-> u[t].done],
       pend |-> [t \in Tracks |-> PendRunStep(o.pend[t], m, r, t)]]

(* ------------------------------------------------------------------ *)
(* Actions                                                             *)
(* ------------------------------------------------------------------ *)
Init ==
  /\ scenes = FreshScenes
  /\ currentScene = 0
  /\ copySourceScene = -1
  /\ deleteMode = FALSE
  /\ params = DefaultParams
  /\ currentStep = [t \in Tracks |-> 0]
  /\ pendulumDir = [t \in Tracks |-> 1]
  /\ clockPhase = [t \in Tracks |-> 0]
  /\ swingAccumulator = [t \in Tracks |-> RInt(0)]
  /\ stepParity = [t \in Tracks |-> 0]
  /\ pendingSwingGate = [t \in Tracks |-> FALSE]
  /\ pendingSwingStep = [t \in Tracks |-> 0]
  /\ outputPitch = [t \in Tracks |-> 0]
  /\ outputStep = [t \in Tracks |-> 0]
  /\ trackClockPhase = [t \in Tracks |-> 0]
  /\ trackSubStep = [t \in Tracks |-> 0]
  /\ gatePulse = [t \in Tracks |-> RInt(0)]
  /\ clockTrigger = TRUE
  /\ resetTrigger = TRUE
  /\ sceneTriggers = [s \in Scenes |-> TRUE]
  /\ copyTrigger = TRUE
  /\ deleteTrigger = TRUE
  /\ runTrigger = TRUE
  /\ rstButtonTrigger = TRUE
  /\ gateButtonStates = [i \in 0 .. (NUM_TRACKS * NUM_STEPS - 1) |-> FALSE]
  /\ internalClockPhase = 0
  /\ isRunning = TRUE
  /\ clockPeriod = RInt(500)
  /\ sinceRise = 0
  /\ clockOutputPulse = RInt(0)
  /\ resetOutputPulse = RInt(0)
  /\ savedJ = NoPatch
  /\ savedFrom = NoPatch
  /\ obs = Obs0

(* The program has run into undefined behaviour: what it does from     *)
(* then on is not determined by its source, and the model stops.       *)
Undefined == obs.act = "undefined"

(* One audio sample: the user's knob moves, then process(). *)
Process(in) ==
  /\ ~Undefined
  /\ \E m \in {Turned(Mod @@ Trace0, in)} :
       \E r \in {ProcessResult(m, in)} :
         IF r.ub
         THEN /\ obs' = [Obs0 EXCEPT !.act = "undefined"]
              /\ UNCHANGED <<modvars, host>>
         ELSE /\ Assign(r)
              /\ obs' = Observe(obs, m, r, in)
              /\ UNCHANGED host

(* The host resets the module. *)
OnReset ==
  /\ ~Undefined
  /\ Assign(onReset(Mod))
  /\ obs' = [Obs0 EXCEPT !.act = "onReset"]
  /\ UNCHANGED host

(* The host saves the patch. *)
Save ==
  /\ ~Undefined
  /\ savedJ' = dataToJson(Mod)
  /\ savedFrom' = [currentScene |-> currentScene, isRunning |-> isRunning,
                   scenes |-> scenes]
  /\ obs' = [obs EXCEPT !.act = "save"]
  /\ UNCHANGED modvars

(* The host loads the saved patch into the module. *)
Load ==
  /\ ~Undefined
  /\ savedJ # NoPatch
  /\ Assign(dataFromJson(Mod, savedJ))
  /\ obs' = [Obs0 EXCEPT !.act = "load", !.knobs = params']
  /\ UNCHANGED host

(* The host loads the patch record j into the module. *)
LoadPatch(j) ==
  /\ ~Undefined
  /\ Assign(dataFromJson(Mod, j))
  /\ obs' = [Obs0 EXCEPT
               !.act = "load", !.knobs = params', !.doc = j,
               !.changed = (scenes' # scenes \/ currentScene' # currentScene
                              \/ isRunning' # isRunning)]
  /\ UNCHANGED host

(* ------------------------------------------------------------------ *)
(* Specification of the scene store: buttons, scene CV, edits, module  *)
(* reset, save and load.  The clock input is patched and silent and    *)
(* the sample is long: the store handlers read neither.                *)
(* ------------------------------------------------------------------ *)
MaxScene == 1
MaxActive == 2

(* What the user can do at one tick: hold a scene, copy, delete or gate *)
(* button, move a knob, or drive the scene CV input.                    *)
StoreControls ==
  {<<"scene", s>> : s \in 0 .. MaxScene}
    \cup {<<"copy", 0>>, <<"del", 0>>, <<"gate", 0>>, <<"turn", 4>>}
    \cup {<<"cv", -15>>, <<"cv", 19>>, <<"cv", 95>>}

Gestures(controls, n) ==
  {x \in SUBSET controls :
     /\ Cardinality(x) <= n
     /\ Cardinality({c \in x : c[1] = "cv"}) <= 1}

StoreInput(g) ==
  [Quiet EXCEPT
     !.sampleTime = 4000, !.clockConn = TRUE,
     !.turn = {<<"steps", 0, c[2]>> : c \in {x \in g : x[1] = "turn"}},
     !.gateBtn = {c[2] : c \in {x \in g : x[1] = "gate"}},
     !.sceneBtn = {c[2] : c \in {x \in g : x[1] = "scene"}},
     !.copyBtn = (<<"copy", 0>> \in g),
     !.delBtn = (<<"del", 0>> \in g),
     !.cvConn = (\E c \in g : c[1] = "cv"),
     !.cv = IF \E c \in g : c[1] = "cv"
            THEN (CHOOSE c \in g : c[1] = "cv")[2] ELSE 0]

NextStore ==
  \/ \E in \in ({StoreInput(g) : g \in Gestures(StoreControls, MaxActive)}) :
        Process(in)
  \/ OnReset

StoreSpec == Init /\ [][NextStore]_vars

(* ------------------------------------------------------------------ *)
(* Specification of the store with persistence: one control per tick,  *)
(* module reset, save of the patch, load of the saved patch.           *)
(* ------------------------------------------------------------------ *)
MaxPersistActive == 1

PersistControls ==
  {<<"scene", s>> : s \in 0 .. MaxScene}
    \cup {<<"copy", 0>>, <<"del", 0>>, <<"turn", 4>>}
    \cup {<<"cv", -15>>, <<"cv", 19>>}

NextPersist ==
  \/ \E in \in ({StoreInput(g) : g \in Gestures(PersistControls, MaxPersistActive)}) :
        Process(in)
  \/ OnReset
  \/ Save
  \/ Load

PersistSpec == Init /\ [][NextPersist]_vars

(* ------------------------------------------------------------------ *)
(* Specifications of the tracks.  A tick's input is a sample time, a   *)
(* clock level and a gesture: knob turns (<<knob, value>>, made on the *)
(* knob of every track at once, so that the three tracks run alike),   *)
(* the tempo knob, the reset or run button, and the value that the     *)
(* random advances of this tick draw.                                  *)
(* ------------------------------------------------------------------ *)
TrackInput(g, dt, conn, v) ==
  [Quiet EXCEPT
     !.sampleTime = dt, !.clockConn = conn, !.clockV = v,
     !.turn = {<<c[1], t, c[2]>> :
                 c \in {x \in g : x[1] \in {"div", "steps", "dir"}},
                 t \in Tracks}
              \cup {<<"bpm", 0, c[2]>> : c \in {x \in g : x[1] = "bpm"}},
     !.rstBtn = (<<"rst", 0>> \in g),
     !.runBtn = (<<"run", 0>> \in g),
     !.rnd = [t \in Tracks |->
                IF \E c \in g : c[1] = "rnd"
                THEN (CHOOSE c \in g : c[1] = "rnd")[2] ELSE 0]]

(* Division: an external clock of any shape, long samples; the ratio    *)
(* knobs, the reset button, and a change to 3 steps in pendulum         *)
(* direction.                                                           *)
DivGestures ==
  {{}, {<<"rst", 0>>}, {<<"steps", 3>>, <<"dir", DIR_PENDULUM>>}}
    \cup {{<<"div", i>>} : i \in 0 .. 2}

NextDiv ==
  \/ \E in \in ({TrackInput(g, 4000, TRUE, v) : g \in DivGestures, v \in {0, 50}}) :
        Process(in)
  \/ OnReset

DivSpec == Init /\ [][NextDiv]_vars

(* Multiplication: the internal clock at 120 and then 30 beats per      *)
(* minute, samples of a quarter second (2 or 8 to the beat), the ratio  *)
(* knobs.                                                               *)
MulGestures ==
  {{}, {<<"bpm", 30>>}} \cup {{<<"div", i>>} : i \in 3 .. 7}

NextMul == \E in \in ({TrackInput(g, 250, FALSE, 0) : g \in MulGestures}) :
      Process(in)

MulSpec == Init /\ [][NextMul]_vars

(* Pendulum: an external clock of any shape, long samples; the          *)
(* direction and step-count knobs and the reset button.                 *)
PendGestures ==
  {{}, {<<"rst", 0>>}, {<<"dir", DIR_PENDULUM>>}, {<<"dir", DIR_FORWARD>>}}
    \cup {{<<"steps", n>>} : n \in {1, 2, 4, 5, 8}}

NextPend == \E in \in ({TrackInput(g, 4000, TRUE, v) : g \in PendGestures, v \in {0, 50}}) :
      Process(in)

PendSpec == Init /\ [][NextPend]_vars

(* Step position: an external clock of any shape, long samples; the    *)
(* step-count and direction knobs turned together to 3 or 1 steps in    *)
(* reverse, 3 steps in pendulum, random or forward direction, or back   *)
(* to 8 steps forward; the value the random advances draw; and scene    *)
(* button 1 (scene 1 starts as a clone and is then edited on its own).  *)
StepInput(g, dt, conn, v) ==
  [TrackInput(g, dt, conn, v) EXCEPT
     !.sceneBtn = {c[2] : c \in {x \in g : x[1] = "scene"}}]

StepGestures ==
  {{}, {<<"scene", 1>>}, {<<"rnd", 2147483647>>},
   {<<"steps", 3>>, <<"dir", DIR_REVERSE>>},
   {<<"steps", 1>>, <<"dir", DIR_REVERSE>>},
   {<<"steps", 3>>, <<"dir", DIR_PENDULUM>>},
   {<<"steps", 3>>, <<"dir", DIR_RANDOM>>},
   {<<"steps", 3>>, <<"dir", DIR_FORWARD>>},
   {<<"steps", 8>>, <<"dir", DIR_FORWARD>>}}

NextStep == \E in \in ({StepInput(g, 4000, TRUE, v) : g \in StepGestures, v \in {0, 50}}) :
      Process(in)

StepSpec == Init /\ [][NextStep]_vars

(* Reset: the internal clock, with samples of half a second, at 120    *)
(* beats per minute (an edge at every sample) or 60 (an edge at every   *)
(* second sample); the ratio knobs at 4; 3 steps in pendulum           *)
(* direction; the reset button and the reset input.                     *)
ResetInput(g, dt, conn, v) ==
  [TrackInput(g, dt, conn, v) EXCEPT
     !.resetV = IF <<"rstIn", 0>> \in g THEN 50 ELSE 0]

ResetGestures ==
  {{}, {<<"rst", 0>>}, {<<"rstIn", 0>>},
   {<<"bpm", 60>>}, {<<"div", 0>>},
   {<<"steps", 3>>, <<"dir", DIR_PENDULUM>>}}

NextReset == \E in \in ({ResetInput(g, 500, FALSE, 0) : g \in ResetGestures}) :
      Process(in)

ResetSpec == Init /\ [][NextReset]_vars

(* Swing: the internal clock at 120 beats per minute with 4 samples to  *)
(* the beat; the swing knob turned to 100 % together with the pitch     *)
(* knob of step 1 (to 1 V), the gate button of step 1, and the reset    *)
(* button.                                                              *)
SwingInput(g, dt) ==
  [TrackInput(g, dt, FALSE, 0) EXCEPT
     !.turn = @ \cup {<<"swing", 0, c[2]>> : c \in {x \in g : x[1] = "swing"}}
                \cup {<<"pitch", Idx(t, c[2]), 10>> :
                        c \in {x \in g : x[1] = "pitch"}, t \in Tracks},
     !.gateBtn = {Idx(t, c[2]) : c \in {x \in g : x[1] = "gate"}, t \in Tracks}]

SwingGestures ==
  {{}, {<<"swing", 100>>, <<"pitch", 1>>}, {<<"gate", 1>>}, {<<"rst", 0>>}}

NextSwing == \E in \in ({SwingInput(g, 125) : g \in SwingGestures}) :
      Process(in)

SwingSpec == Init /\ [][NextSwing]_vars

(* ------------------------------------------------------------------ *)
(* Swing in the multiplication mode: the internal clock at 120 beats   *)
(* per minute with 4 samples to the beat, the ratio knobs turned to x4 *)
(* (a step at every sample), the swing knob at 100 % together with the *)
(* pitch knob of step 1, the gate button of step 1.                    *)
(* ------------------------------------------------------------------ *)
SwingMulGestures ==
  {{}, {<<"swing", 100>>, <<"pitch", 1>>}, {<<"gate", 1>>}, {<<"div", 5>>}}

NextSwingMul == \E in \in ({SwingInput(g, 125) : g \in SwingMulGestures}) :
      Process(in)

SwingMulSpec == Init /\ [][NextSwingMul]_vars

(* ------------------------------------------------------------------ *)
(* Swing delays longer than the interval between steps: the internal   *)
(* clock with 8 samples to the beat once the tempo knob is at 60 beats *)
(* per minute, which is turned together with the swing knob (to 100 %, *)
(* a delay of half a beat, 4 samples) and the pitch knob of step 1;    *)
(* the ratio knobs turned to x4 (a step at every second sample) or to  *)
(* x8 (a step at every sample).                                        *)
(* ------------------------------------------------------------------ *)
SwingLagGestures ==
  {{}, {<<"swing", 100>>, <<"pitch", 1>>, <<"bpm", 60>>},
   {<<"div", 5>>}, {<<"div", 7>>}}

NextSwingLag == \E in \in ({SwingInput(g, 125) : g \in SwingLagGestures}) :
      Process(in)

SwingLagSpec == Init /\ [][NextSwingLag]_vars

(* ------------------------------------------------------------------ *)
(* Specification of advanceStep() alone: the first scene's tracks hold *)
(* any step count and the forward or reverse direction, the current    *)
(* step is any step of the pattern; the first track is advanced up to  *)
(* stepCount times and the direction knobs are turned in between.      *)
(* cyc holds the step the run started from and, for each advance, the  *)
(* direction and the step it ended at.                                 *)
(* ------------------------------------------------------------------ *)
CycleObs(act, start, path) ==
  [Obs0 EXCEPT !.act = act] @@ [cyc |-> [start |-> start, path |-> path]]

CycleInit ==
  \E n \in 1 .. NUM_STEPS, d \in {DIR_FORWARD, DIR_REVERSE} :
    \E st \in 0 .. (n - 1) :
    /\ scenes = [FreshScenes EXCEPT
                   ![0].tracks = [t \in Tracks |->
                                    [TrackData EXCEPT !.stepCount = n,
                                                      !.direction = d]]]
    /\ currentScene = 0
    /\ copySourceScene = -1
    /\ deleteMode = FALSE
    /\ params = [DefaultParams EXCEPT !.steps = [t \in Tracks |-> n],
                                       !.dir = [t \in Tracks |-> d]]
    /\ currentStep = [t \in Tracks |-> st]
    /\ pendulumDir = [t \in Tracks |-> 1]
    /\ clockPhase = [t \in Tracks |-> 0]
    /\ swingAccumulator = [t \in Tracks |-> RInt(0)]
    /\ stepParity = [t \in Tracks |-> st % 2]
    /\ pendingSwingGate = [t \in Tracks |-> FALSE]
    /\ pendingSwingStep = [t \in Tracks |-> 0]
    /\ outputPitch = [t \in Tracks |-> 0]
    /\ outputStep = [t \in Tracks |-> st]
    /\ trackClockPhase = [t \in Tracks |-> 0]
    /\ trackSubStep = [t \in Tracks |-> 0]
    /\ gatePulse = [t \in Tracks |-> RInt(0)]
    /\ clockTrigger = TRUE
    /\ resetTrigger = TRUE
    /\ sceneTriggers = [s \in Scenes |-> TRUE]
    /\ copyTrigger = TRUE
    /\ deleteTrigger = TRUE
    /\ runTrigger = TRUE
    /\ rstButtonTrigger = TRUE
    /\ gateButtonStates = [i \in 0 .. (NUM_TRACKS * NUM_STEPS - 1) |-> FALSE]
    /\ internalClockPhase = 0
    /\ isRunning = TRUE
    /\ clockPeriod = RInt(500)
    /\ sinceRise = 0
    /\ clockOutputPulse = RInt(0)
    /\ resetOutputPulse = RInt(0)
    /\ savedJ = NoPatch
    /\ savedFrom = NoPatch
    /\ obs = CycleObs("init", st, <<>>)

AdvanceTrack ==
  /\ Len(obs.cyc.path) < scenes[currentScene].tracks[0].stepCount
  /\ Assign(advanceStep(Mod, 0, 0))
  /\ obs' = CycleObs("advanceStep", obs.cyc.start,
                     Append(obs.cyc.path,
                            <<scenes[currentScene].tracks[0].direction,
                              currentStep'[0]>>))
  /\ UNCHANGED host

(* The direction knobs are turned and read (line 320). *)
TurnDirection(d) ==
  /\ scenes[currentScene].tracks[0].direction # d
  /\ Assign(ReadKnobs([Mod EXCEPT !.params.dir = [t \in Tracks |-> d]],
                      currentScene))
  /\ obs' = CycleObs("turn", obs.cyc.start, obs.cyc.path)
  /\ UNCHANGED host

NextCycle ==
  \/ AdvanceTrack
  \/ \E d \in {DIR_FORWARD, DIR_REVERSE} : TurnDirection(d)

CycleSpec == CycleInit /\ [][NextCycle]_vars

(* ------------------------------------------------------------------ *)
(* Specification of the gate buttons: the buttons of step 1 of the     *)
(* first track and of step 7 of the third, pressed and released in any *)
(* combination; the pitch knob of step 1 of the first track; scene     *)
(* buttons 0 and 1.  The clock input is patched and silent.            *)
(* ------------------------------------------------------------------ *)
GateInput(g) ==
  [Quiet EXCEPT
     !.sampleTime = 4000, !.clockConn = TRUE,
     !.gateBtn = {c[2] : c \in {x \in g : x[1] = "gate"}},
     !.sceneBtn = {c[2] : c \in {x \in g : x[1] = "scene"}},
     !.turn = {<<"pitch", c[2], 10>> : c \in {x \in g : x[1] = "pitch"}}]

GateGestures ==
  {{}, {<<"gate", Idx(0, 1)>>}, {<<"gate", Idx(2, 7)>>},
   {<<"gate", Idx(0, 1)>>, <<"gate", Idx(2, 7)>>},
   {<<"pitch", Idx(0, 1)>>}, {<<"gate", Idx(0, 1)>>, <<"pitch", Idx(0, 1)>>},
   {<<"scene", 0>>}, {<<"scene", 1>>}}

NextGate == \E in \in ({GateInput(g) : g \in GateGestures}) : Process(in)

GateSpec == Init /\ [][NextGate]_vars

(* ------------------------------------------------------------------ *)
(* Specification of a stop under swing: the internal clock at 120      *)
(* beats per minute with 4 samples to the beat, the ratio 1; the swing *)
(* knob turned to 100 % together with the pitch knob of step 1 (a      *)
(* delay of 2 samples on every second step), and the run button.       *)
(* ------------------------------------------------------------------ *)
NextStopSwing ==
  \E g \in {{}, {<<"swing", 100>>, <<"pitch", 1>>}, {<<"run", 0>>}} :
    Process(SwingInput(g, 125))

StopSwingSpec == Init /\ [][NextStopSwing]_vars

(* ------------------------------------------------------------------ *)
(* Specification of a scene switch under a running clock: an external  *)
(* clock of any shape, long samples, the ratio 1 (an advance at every  *)
(* clock edge); scene buttons 0 and 1, the pitch knob of step 1 turned *)
(* to 1 V together with the ratio knob to /2, the gate button of step  *)
(* 1, on every track.                                                  *)
(* ------------------------------------------------------------------ *)
SwitchInput(g, v) ==
  [SwingInput(g, 4000) EXCEPT
     !.clockConn = TRUE, !.clockV = v,
     !.sceneBtn = {c[2] : c \in {x \in g : x[1] = "scene"}}]

NextSwitch ==
  \E g \in {{}, {<<"scene", 0>>}, {<<"scene", 1>>},
            {<<"pitch", 1>>, <<"div", 1>>}, {<<"gate", 1>>}},
     v \in {0, 50} :
    Process(SwitchInput(g, v))

SwitchSpec == Init /\ [][NextSwitch]_vars

(* ------------------------------------------------------------------ *)
(* Specification of the codec.  The store is edited (knobs of three    *)
(* tracks, a gate button, scene buttons 0 and 1, the run button), the  *)
(* patch is saved, and from then on the module is reset and loaded:    *)
(* with the saved record, or with the record less one field, or with   *)
(* one of its arrays cut short, as an older or hand-edited patch file  *)
(* holds it.  Two shortened records are not loaded in a row.           *)
(* ------------------------------------------------------------------ *)
Without(j, f) == [k \in DOMAIN j \ {f} |-> j[k]]
Cut(seq, n) == SubSeq(seq, 1, IF n < Len(seq) THEN n ELSE Len(seq))

TrackVariant(tr, v) ==
  CASE v[1] = "track"   -> Without(tr, v[2])
    [] v[1] = "pitches" -> [tr EXCEPT !.pitches = Cut(@, v[2])]
    [] v[1] = "gates"   -> [tr EXCEPT !.gates = Cut(@, v[2])]
    [] OTHER            -> tr

SceneVariant(sc, v) ==
  CASE v[1] = "scene"  -> Without(sc, v[2])
    [] v[1] = "tracks" -> [sc EXCEPT !.tracks = Cut(@, v[2])]
    [] OTHER ->
         [sc EXCEPT !.tracks = [k \in DOMAIN @ |-> TrackVariant(@[k], v)]]

PatchVariant(j, v) ==
  CASE v[1] = "root"   -> Without(j, v[2])
    [] v[1] = "scenes" -> [j EXCEPT !.scenes = Cut(@, v[2])]
    [] OTHER ->
         [j EXCEPT !.scenes = [k \in DOMAIN @ |-> SceneVariant(@[k], v)]]

Patches(j) == {j}
      \cup {PatchVariant(j, v) :
      v \in ({<<"root", f>> : f \in {"currentScene", "isRunning", "scenes"}}
      \cup {<<"scene", f>> : f \in {"isEmpty", "tracks"}}
      \cup {<<"track", f>> : f \in {"stepCount", "divisionIndex", "direction", "pitches", "gates"}}
      \cup {<<"scenes", 1>>, <<"tracks", 1>>, <<"pitches", 3>>, <<"gates", 0>>})}

CodecInput(g) ==
  [Quiet EXCEPT
     !.sampleTime = 4000, !.clockConn = TRUE,
     !.turn = IF <<"knobs", 0>> \in g
              THEN {<<"steps", 0, 4>>, <<"div", 1, 5>>, <<"dir", 2, DIR_PENDULUM>>,
                    <<"pitch", Idx(1, 2), 30>>}
              ELSE {},
     !.gateBtn = IF <<"gate", 0>> \in g THEN {Idx(2, 7)} ELSE {},
     !.sceneBtn = {c[2] : c \in {x \in g : x[1] = "scene"}},
     !.runBtn = (<<"run", 0>> \in g)]

CodecGestures ==
  {{}, {<<"knobs", 0>>}, {<<"gate", 0>>}, {<<"run", 0>>},
   {<<"scene", 0>>}, {<<"scene", 1>>}}

(* A tick before the patch has been saved. *)
Edit(in) ==
  /\ savedJ = NoPatch
  /\ Process(in)

NextCodec ==
  \/ \E in \in ({CodecInput(g) : g \in CodecGestures}) : Edit(in)
  \/ savedJ = NoPatch /\ Save
  \/ OnReset
  \/ /\ savedJ # NoPatch
     /\ \E j \in Patches(savedJ) :
          /\ obs.act = "load" => j = savedJ \/ obs.doc = savedJ
          /\ LoadPatch(j)

CodecSpec == Init /\ [][NextCodec]_vars

(* ------------------------------------------------------------------ *)
(* Specification of run and stop: the internal clock at 120 or 60      *)
(* beats per minute with samples of half a second, or an external      *)
(* clock of any shape with long samples; the run and reset buttons,    *)
(* the ratio knobs at x2.                                              *)
(* ------------------------------------------------------------------ *)
StopGestures ==
  {{}, {<<"run", 0>>}, {<<"rst", 0>>}, {<<"bpm", 60>>}, {<<"div", 3>>}}

(* The clock cable is patched, or not, before the first tick. *)
NextStop ==
  \E in \in ({TrackInput(g, 500, FALSE, 0) : g \in StopGestures}
        \cup {TrackInput(g, 4000, TRUE, v) : g \in StopGestures, v \in {0, 50}}) :
    /\ obs.act = "init" \/ in.clockConn = obs.clockConn
    /\ Process(in)

StopSpec == Init /\ [][NextStop]_vars

(* ------------------------------------------------------------------ *)
(* Specification of the period estimate: an external clock of any      *)
(* shape with samples of one second (intervals of 1, 2, 3 s are        *)
(* measured, longer ones rejected), the ratio knobs at x1 and x2.      *)
(* ------------------------------------------------------------------ *)
PeriodGestures == {{}, {<<"div", 2>>}, {<<"div", 3>>}}

NextPeriod == \E in \in ({TrackInput(g, 1000, TRUE, v) : g \in PeriodGestures, v \in {0, 50}}) :
      Process(in)

PeriodSpec == Init /\ [][NextPeriod]_vars

(* ------------------------------------------------------------------ *)
(* Specification of the order within a tick: the internal clock at 120 *)
(* beats per minute with samples of half a second (an edge at every    *)
(* tick), or an external clock of any shape with long samples; the     *)
(* run and reset buttons, alone or together; 1 or 8 steps; forward or  *)
(* reverse direction.                                                  *)
(* ------------------------------------------------------------------ *)
OrderGestures ==
  {{}, {<<"run", 0>>}, {<<"rst", 0>>}, {<<"run", 0>>, <<"rst", 0>>},
   {<<"steps", 1>>}, {<<"steps", 8>>},
   {<<"dir", DIR_REVERSE>>}, {<<"dir", DIR_FORWARD>>}}

NextOrder ==
  \E in \in ({TrackInput(g, 500, FALSE, 0) : g \in OrderGestures}
        \cup {TrackInput(g, 4000, TRUE, v) : g \in OrderGestures, v \in {0, 50}}) :
    /\ obs.act = "init" \/ in.clockConn = obs.clockConn
    /\ Process(in)

OrderSpec == Init /\ [][NextOrder]_vars

(* ------------------------------------------------------------------ *)
(* Specification of out-of-range records: at any time the host may     *)
(* load the record of the present store in which the tracks of the     *)
(* first scene hold 0 or 9 steps, division index 9 or direction 7.     *)
(* The clock is external, of any shape; the user may turn the knobs    *)
(* back to 3 steps in reverse, ratio 1.                                *)
(* ------------------------------------------------------------------ *)
CorruptPatch(j, c) ==
  [j EXCEPT !.scenes[1].tracks = [k \in DOMAIN @ |-> [@[k] EXCEPT ![c[1]] = c[2]]]]

CorruptFields ==
  {<<"stepCount", 0>>, <<"stepCount", 9>>, <<"divisionIndex", 9>>,
   <<"direction", 7>>}

RangeGestures ==
  {{}, {<<"steps", 3>>, <<"dir", DIR_REVERSE>>, <<"div", 2>>}}

NextRange ==
  \/ \E in \in ({StepInput(g, 4000, TRUE, v) : g \in RangeGestures, v \in {0, 50}}) :
        Process(in)
  \/ \E c \in CorruptFields : LoadPatch(CorruptPatch(dataToJson(Mod), c))

RangeSpec == Init /\ [][NextRange]_vars

(* ------------------------------------------------------------------ *)
(* Properties of the scene store                                       *)
(* ------------------------------------------------------------------ *)
(* The button edges of a step, read off the edge detectors: a button's  *)
(* trigger goes from low to high exactly in the tick where it fires.    *)
SceneEdges == {s \in Scenes : ~sceneTriggers[s] /\ sceneTriggers'[s]}
CopyEdge   == ~copyTrigger /\ copyTrigger'
DeleteEdge == ~deleteTrigger /\ deleteTrigger'

(* The scenes as a tick's knob reads and gate toggles leave them, that  *)
(* is, as the CV and button handlers of the tick find them.             *)
EditedScenes ==
  AfterEdits([scenes |-> scenes, currentScene |-> currentScene,
              params |-> obs'.knobs,
              gateButtonStates |-> gateButtonStates],
             [gateBtn |-> {i \in DOMAIN gateButtonStates :
                             gateButtonStates'[i]}]).scenes

(* The scene that is current when the buttons of a tick are handled:    *)
(* the scene CV is handled before them.                                 *)
SceneAtButtons == IF obs'.cvSwitched THEN SceneCVIndex(obs'.cv) ELSE currentScene

(* C1: when copy is armed with source A and scene button B is pressed   *)
(* (the only scene button pressed in that tick, the copy button not     *)
(* pressed in it), then after the tick the tracks of B equal the tracks *)
(* A had just before the paste, B is not empty, copySourceScene is -1   *)
(* and currentScene is B; this also when the scene CV has changed the   *)
(* current scene since the arming.                                      *)
C1_PasteCopiesSource ==
  [][\A B \in Scenes :
       (copySourceScene >= 0 /\ SceneEdges = {B} /\ ~CopyEdge)
         => /\ scenes'[B].tracks = EditedScenes[copySourceScene].tracks
            /\ ~scenes'[B].isEmpty
            /\ copySourceScene' = -1
            /\ currentScene' = B]_vars

(* Scene 1, edited to 4 steps, was armed as the copy source; the scene  *)
(* CV then made scene 0 current; button 0 pasted scene 1 into scene 0.  *)
C1_Witness ==
  /\ obs.act = "process"
  /\ obs.ops = <<[op |-> "paste", s |-> 0, src |-> 1, cur |-> 0]>>
  /\ scenes[0].tracks[0].stepCount = 4
  /\ scenes[0].tracks = scenes[1].tracks
  /\ currentScene = 0
  /\ copySourceScene = -1

(* The default empty scene, written out. *)
EmptyDefaultScene ==
  [isEmpty |-> TRUE,
   tracks  |-> [t \in Tracks |->
                  [stepCount |-> 8, divisionIndex |-> 2, direction |-> 0,
                   pitches |-> [s \in Steps |-> 0],
                   gates |-> [s \in Steps |-> TRUE]]]]

C3_AsStated ==
  [][(deleteMode /\ SceneEdges = {0} /\ ~DeleteEdge /\ ~CopyEdge)
       => /\ deleteMode'
          /\ scenes' = EditedScenes
          /\ copySourceScene' = copySourceScene
          /\ currentScene' = SceneAtButtons]_vars

(* C3, amended: with delete mode armed, pressing scene button 0 (alone) *)
(* resets no scene and leaves deleteMode armed and every scene's data   *)
(* and isEmpty flag as they were; the press is a normal selection, so   *)
(* currentScene becomes 0.                                              *)
C3_DeleteModeSceneZero ==
  [][(deleteMode /\ SceneEdges = {0} /\ ~DeleteEdge /\ ~CopyEdge)
       => /\ deleteMode'
          /\ scenes' = EditedScenes
          /\ copySourceScene' = copySourceScene
          /\ currentScene' = 0]_vars

(* Delete mode is armed, scene 1 was current, button 0 was pressed. *)
C3_Witness ==
  /\ obs.act = "process"
  /\ obs.ops = <<[op |-> "select", s |-> 0, src |-> -1, cur |-> 1]>>
  /\ deleteMode
  /\ ~scenes[1].isEmpty
  /\ currentScene = 0

QuantizedCV(v) == IF v < 0 THEN 0 ELSE IF v >= 70 THEN 7 ELSE v \div 10

(* C6: in a tick with the scene CV connected and no scene, copy or      *)
(* delete button pressed, the quantized index (0 for a negative         *)
(* voltage, 7 above 7 V) becomes currentScene exactly when it differs   *)
(* from currentScene and its scene is not empty; copySourceScene,       *)
(* deleteMode, every scene's track data and every isEmpty flag are left *)
(* alone, and the current scene is not an empty one.                    *)
C6_SceneCV ==
  [][(obs'.act = "process" /\ obs'.cvConn
        /\ SceneEdges = {} /\ ~CopyEdge /\ ~DeleteEdge)
       => LET q == QuantizedCV(obs'.cv)
          IN  /\ currentScene' = IF q # currentScene /\ ~scenes[q].isEmpty
                                 THEN q ELSE currentScene
              /\ obs'.cvSwitched = (currentScene' # currentScene)
              /\ ~scenes'[currentScene'].isEmpty
              /\ copySourceScene' = copySourceScene
              /\ deleteMode' = deleteMode
              /\ scenes' = EditedScenes]_vars

(* A CV of -1.5 V switched from scene 1 to scene 0 while copy was armed *)
(* on scene 1.                                                          *)
C6_Witness ==
  /\ obs.act = "process"
  /\ obs.cvConn /\ obs.cv = -15 /\ obs.cvSwitched
  /\ obs.ops = <<>> /\ ~obs.copyEdge /\ ~obs.delEdge
  /\ currentScene = 0
  /\ copySourceScene = 1

(* C7: copySourceScene >= 0 and deleteMode never hold together; in a    *)
(* tick where of the scene, copy and delete buttons only copy is        *)
(* pressed, copy is armed with the current scene as source if it was    *)
(* not armed and is cancelled if it was, and delete mode is off; where  *)
(* only delete is pressed, deleteMode flips and copy is disarmed.       *)
C7_CopyDeleteExclusive ==
  /\ [](~(copySourceScene >= 0 /\ deleteMode))
  /\ [][(SceneEdges = {} /\ CopyEdge /\ ~DeleteEdge)
          => /\ copySourceScene' = IF copySourceScene < 0
                                   THEN currentScene' ELSE -1
             /\ deleteMode' = FALSE]_vars
  /\ [][(SceneEdges = {} /\ DeleteEdge /\ ~CopyEdge)
          => /\ deleteMode' = ~deleteMode
             /\ copySourceScene' = -1]_vars

(* Copy and delete were pressed in the same tick while copy was armed:  *)
(* delete mode is armed and copy is not.                                *)
C7_Witness ==
  /\ obs.act = "process"
  /\ obs.copyEdge /\ obs.delEdge
  /\ deleteMode
  /\ copySourceScene = -1
  /\ currentScene = 1

(* C4: scene 0 is not empty in any state reached from construction by   *)
(* ticks (scene, copy and delete button edges, scene CV), module resets *)
(* and loads of saved patches.                                          *)
C4_SceneZeroNeverEmpty == ~scenes[0].isEmpty

(* A patch that was saved with scene 1 in use and current has been      *)
(* loaded.                                                              *)
C4_Witness ==
  /\ obs.act = "load"
  /\ ~scenes[0].isEmpty
  /\ ~scenes[1].isEmpty
  /\ scenes[1].tracks[0].stepCount = 4
  /\ currentScene = 1

(* ------------------------------------------------------------------ *)
(* Properties of the tracks                                            *)
(* ------------------------------------------------------------------ *)
(* The ratio of a division index below 3: a step every r clock edges. *)
DivRatio(idx) == CASE idx = 0 -> 4 [] idx = 1 -> 2 [] idx = 2 -> 1

(* C8: while a track's ratio r in {1, 2, 4} stays the same from a tick  *)
(* where its division phase is 0, the track advances at a tick exactly  *)
(* when the tick has a clock edge and that edge is the r-th since the   *)
(* start or the last advance; whatever the step count and direction.    *)
C8_DivisionEveryRth ==
  obs.act = "process" =>
    \A t \in Tracks :
      obs.div[t].held >= 0 =>
        /\ obs.gap[t] <= DivRatio(obs.div[t].held)
        /\ obs.adv[t] <=> (obs.clk /\ obs.gap[t] = DivRatio(obs.div[t].held))

(* Track 0, with 3 steps in pendulum direction at ratio 4, advances on  *)
(* the fourth edge of a run.                                            *)
C8_Witness ==
  /\ obs.act = "process"
  /\ obs.adv[0] /\ obs.gap[0] = 4 /\ obs.div[0].held = 0
  /\ scenes[0].tracks[0].stepCount = 3
  /\ scenes[0].tracks[0].direction = DIR_PENDULUM
  /\ currentStep[0] = 2

(* The steps per clock of a division index above 2. *)
MulN(idx) ==
  CASE idx = 3 -> 2 [] idx = 4 -> 3 [] idx = 5 -> 4 [] idx = 6 -> 6 [] idx = 7 -> 8

(* The ticks of one beat of the internal clock, when a whole number. *)
BeatTicks(u) == 60000 \div (u.bpm * u.dt)
WholeBeat(u) == BeatTicks(u) * u.bpm * u.dt = 60000

(* C9: a track with N steps per clock on a steady clock of L ticks to   *)
(* the period, L >= N, has advanced 1 + floor(j * N / L) times at the   *)
(* j-th tick after an edge (the edge's advance and one at each of the   *)
(* evenly spaced boundaries passed), has advanced exactly N times when  *)
(* the next edge comes, and never advances more than N times between    *)
(* two edges.                                                           *)
C9_MultiplicationNPerClock ==
  obs.act = "process" =>
    \A t \in Tracks :
      /\ LET u == obs.mul[t]
         IN  u.idx > 2 =>
               /\ u.advs <= MulN(u.idx)
               /\ (WholeBeat(u) /\ BeatTicks(u) >= MulN(u.idx)
                     /\ u.ticks < BeatTicks(u))
                    => u.advs = 1 + (u.ticks * MulN(u.idx)) \div BeatTicks(u)
      /\ LET d == obs.done[t]
         IN  (d.idx > 2 /\ WholeBeat(d) /\ d.ticks = BeatTicks(d)
                /\ BeatTicks(d) >= MulN(d.idx))
               => d.advs = MulN(d.idx)

(* A beat of 8 ticks with 3 steps per clock has just ended: 3 advances. *)
C9_Witness ==
  /\ obs.act = "process"
  /\ obs.clk
  /\ obs.done[0].idx = 4 /\ obs.done[0].ticks = 8 /\ obs.done[0].advs = 3
  /\ obs.mul[0].idx = 4 /\ obs.mul[0].advs = 1

(* The k-th term of 0, 1, ..., n-1, n-2, ..., 1, 0, 1, ... *)
Bounce(n, k) == IF n <= 1 THEN 0 ELSE IF k <= n - 1 THEN k ELSE 2 * (n - 1) - k

(* C10: after k pendulum advances from step 0 with sign +1 under step   *)
(* count n, the track is at the k-th term of 0, 1, ..., n-1, n-2, ...,  *)
(* 1, 0, 1, ... (for n = 4: 0,1,2,3,2,1,0,1,2,...), the sign turning    *)
(* to -1 on reaching n-1 and to +1 on reaching 0; for n = 1 the track   *)
(* stays at step 0.                                                     *)
C10_PendulumBounces ==
  \A t \in Tracks :
    LET p == obs.pend[t]
    IN  (p.k >= 0 /\ p.n >= 1) =>
          /\ currentStep[t] = Bounce(p.n, p.k)
          /\ p.n >= 2 =>
               pendulumDir[t] = IF p.k >= p.n - 1 THEN -1 ELSE 1

(* With 4 steps, the fifth advance from step 0 is the step back from 3  *)
(* to 2.                                                                *)
C10_Witness ==
  /\ obs.act = "process"
  /\ obs.adv[0]
  /\ obs.pend[0] = [k |-> 4, n |-> 4]
  /\ currentStep[0] = 2
  /\ pendulumDir[0] = -1

(* C11: after every advance, in every direction, the track's step is at *)
(* least 0 and below the step count of the current scene's track, also  *)
(* when the advance started from a step at or above that count (the     *)
(* count was lowered, or the scene was switched), or after a change of  *)
(* direction.                                                           *)
C11_StepInRange ==
  \A t \in Tracks :
    obs.adv[t] =>
      /\ 0 <= currentStep[t]
      /\ currentStep[t] < scenes[currentScene].tracks[t].stepCount

(* Track 0 stood at step 5 of scene 0 (8 steps); scene 1, with 3 steps  *)
(* in reverse direction, was selected in the tick of a clock edge: the  *)
(* advance went from step 5 to step 1.                                  *)
C11_Witness ==
  /\ obs.act = "process"
  /\ obs.adv[0] /\ obs.from[0] = 5
  /\ Len(obs.ops) = 1 /\ obs.ops[1].s = 1 /\ obs.ops[1].cur = 0
  /\ scenes[1].tracks[0].stepCount = 3
  /\ scenes[1].tracks[0].direction = DIR_REVERSE
  /\ currentStep[0] = 1

(* The step and sign one advance leaves from step 0 with sign +1, under *)
(* n steps, written out for the forward, reverse and pendulum           *)
(* directions.                                                          *)
FirstStep(dir, n) ==
  CASE dir = DIR_FORWARD  -> <<IF n = 1 THEN 0 ELSE 1, 1>>
    [] dir = DIR_REVERSE  -> <<n - 1, 1>>
    [] dir = DIR_PENDULUM -> IF n <= 2 THEN <<n - 1, -1>> ELSE <<1, 1>>

(* C12: a tick with a reset edge (button or input) starts its clock and *)
(* tracks from step 0, sign +1, division phase 0 and internal clock     *)
(* phase 0, whatever the state before: a track that does not advance in *)
(* the tick ends it at step 0 with sign +1, one that does advance has   *)
(* made that one advance from step 0 with sign +1; the division phase   *)
(* ends at 0, or at the one increment of the tick's clock edge; the     *)
(* internal clock phase ends at the one increment of the tick.          *)
C12_ResetZeroes ==
  [][(obs'.act = "process" /\ obs'.didReset) =>
       /\ internalClockPhase' =
            IF isRunning' /\ ~obs'.clockConn
            THEN LET p == obs'.knobs.bpm * obs'.dt
                 IN  IF p >= 60000 THEN p - 60000 ELSE p
            ELSE 0
       /\ \A t \in Tracks :
            LET td  == scenes'[currentScene'].tracks[t]
                idx == scenes'[currentScene].tracks[t].divisionIndex
            IN  /\ ~obs'.adv[t] => (currentStep'[t] = 0 /\ pendulumDir'[t] = 1)
                /\ obs'.adv[t] =>
                     /\ obs'.from[t] = 0
                     /\ td.direction # DIR_RANDOM =>
                          <<currentStep'[t], pendulumDir'[t]>>
                             = FirstStep(td.direction, td.stepCount)
                /\ clockPhase'[t] =
                     IF idx <= 2 /\ obs'.clk THEN (4 \div DivRatio(idx)) % 4
                     ELSE 0]_vars

(* Track 0, with 3 steps in pendulum direction at ratio 4 and 60 beats  *)
(* per minute, had played step 2 when a reset came in a tick without a  *)
(* clock edge: it is at step 0 with sign +1 and phase 0, and the        *)
(* internal clock has counted this one tick.                            *)
C12_Witness ==
  /\ obs.act = "process"
  /\ obs.didReset /\ ~obs.clk
  /\ scenes[0].tracks[0].direction = DIR_PENDULUM
  /\ scenes[0].tracks[0].divisionIndex = 0
  /\ outputStep[0] = 2
  /\ currentStep[0] = 0 /\ pendulumDir[0] = 1 /\ clockPhase[0] = 0
  /\ internalClockPhase = 30000

(* A swing countdown is pending on track t. *)
SwingPending(t) == pendingSwingGate[t] /\ RLt(RInt(0), swingAccumulator[t])

(* C13: when a swing countdown is pending on a track and a reset edge   *)
(* comes, the tick of the reset clears the countdown: the step armed    *)
(* before the reset does not fire its gate or reach the outputs in that *)
(* tick, and no countdown is pending after it (unless the tick's own    *)
(* advance armed a new one).                                            *)
C13_ResetCancelsSwing ==
  [][\A t \in Tracks :
       (obs'.act = "process" /\ obs'.didReset /\ SwingPending(t)
          /\ obs'.sw[t].step < 0)
         => /\ ~obs'.late[t]
            /\ ~SwingPending(t)'
            /\ outputStep'[t] = IF obs'.fire[t] = "now" THEN currentStep'[t]
                                 ELSE outputStep[t]]_vars

(* The swing delay of an off-beat advance, in ms: clockPeriod *          *)
(* max(ratio, 1) * swing * 0.5, with swing in percent.                  *)
OffBeatDelay(period, idx, swing) ==
  RMul(RMul(period, RInt(IF idx <= 2 THEN DivRatio(idx) ELSE 1)),
       Rat(swing, 200))

(* The parity bit toggles on every advance and only then. *)
C14_ParityToggles ==
  [][obs'.act = "process" =>
       \A t \in Tracks :
         stepParity'[t] = IF obs'.adv[t] THEN 1 - stepParity[t]
                          ELSE stepParity[t]]_vars

(* With swing > 0, an advance onto a gate-enabled step fires the gate   *)
(* and sets the output pitch and step in the tick of the advance when   *)
(* the parity is even; when it is odd it fires nothing in that tick and *)
(* arms the delay clockPeriod * max(ratio, 1) * swing * 0.5.            *)
C14_AdvanceTick ==
  [][obs'.act = "process" =>
       \A t \in Tracks :
         LET td   == scenes'[currentScene].tracks[t]
             step == currentStep'[t]
         IN  (obs'.adv[t] /\ obs'.knobs.swing > 0 /\ td.gates[step]) =>
               IF stepParity'[t] = 0
               THEN /\ obs'.fire[t] = "now"
                    /\ ~obs'.late[t] =>
                         /\ outputStep'[t] = step
                         /\ outputPitch'[t] = td.pitches[step]
               ELSE /\ obs'.fire[t] = "no"
                    /\ ~obs'.late[t]
                    /\ obs'.sw[t].step = step
                    /\ obs'.sw[t].delay =
                         OffBeatDelay(clockPeriod', td.divisionIndex,
                                      obs'.knobs.swing)]_vars

(* The gate of an off-beat step fires, and the outputs take the step,   *)
(* exactly when the time since the tick of the advance equals the       *)
(* delay.                                                               *)
C14_FiresAfterDelay ==
  \A t \in Tracks :
    /\ (obs.late[t] /\ obs.sw[t].step >= 0) =>
          /\ RInt(obs.sw[t].since) = obs.sw[t].delay
          /\ outputStep[t] = obs.sw[t].step
    /\ (obs.sw[t].step >= 0 /\ RInt(obs.sw[t].since) = obs.sw[t].delay
          /\ scenes[currentScene].tracks[t].gates[obs.sw[t].step])
         => obs.late[t]

(* C14: the parity bit toggles on every advance; with swing > 0 and a   *)
(* gate-enabled target step, an even-parity advance fires the gate and  *)
(* updates the output pitch and step in the tick of the advance, an     *)
(* odd-parity advance does not fire in that tick and fires exactly      *)
(* clockPeriod * max(ratio, 1) * swing * 0.5 after it (0.25 s for swing *)
(* 100 %, ratio 1 and a clock period of 0.5 s).                         *)
C14_SwingTiming ==
  /\ C14_ParityToggles
  /\ C14_AdvanceTick
  /\ []C14_FiresAfterDelay

(* The swing delay of the advance a tick has made on track t, in ms     *)
(* (0 for an even parity or no swing), and whether it is above 1 ms.    *)
DelayOfAdvance(t) ==
  IF stepParity'[t] = 1 /\ obs'.knobs.swing > 0
  THEN OffBeatDelay(clockPeriod', scenes'[currentScene].tracks[t].divisionIndex,
                    obs'.knobs.swing)
  ELSE RInt(0)

Swung(t) == RLt(RInt(1), DelayOfAdvance(t))

(* A tick in which track t advances onto a step whose gate is disabled. *)
OntoDisabled(t) ==
  /\ obs'.act = "process"
  /\ obs'.adv[t]
  /\ ~scenes'[currentScene].tracks[t].gates[currentStep'[t]]

(* The outputs of track t after the tick show step s. *)
Shows(t, s) ==
  /\ outputStep'[t] = s
  /\ outputPitch'[t] = scenes'[currentScene].tracks[t].pitches[s]

(* C15 as stated: an advance onto a gate-disabled step triggers no gate *)
(* pulse; the output pitch and displayed step are updated to the step   *)
(* in the tick of the advance when the swing delay is zero, and are at  *)
(* that step once the delay has passed when it is positive.             *)
C15_AsStated ==
  /\ [][\A t \in Tracks :
          OntoDisabled(t) =>
            /\ obs'.fire[t] = "no"
            /\ (~Swung(t) /\ ~obs'.late[t]) => Shows(t, currentStep'[t])]_vars
  /\ [](\A t \in Tracks :
          LET u == obs.sw[t]
          IN  (u.step >= 0 /\ RLe(u.delay, RInt(u.since))
                 /\ ~scenes[currentScene].tracks[t].gates[u.step])
                => outputStep[t] = u.step)

(* C15, amended: an advance onto a gate-disabled step triggers no gate  *)
(* pulse and arms no swing delay.  When the swing delay is at most 1 ms *)
(* the output pitch and displayed step are updated to the step in the   *)
(* tick of the advance; when it is above 1 ms they are not updated for  *)
(* that step, neither in that tick nor later (nothing is armed): they   *)
(* stay as they were.  In both cases a swing delay of an earlier step   *)
(* that ends in the same tick fires that step's gate and puts that      *)
(* step on the outputs.                                                 *)
C15_GateDisabledStep ==
  [][\A t \in Tracks :
       OntoDisabled(t) =>
         /\ obs'.fire[t] = "no"
         /\ pendingSwingStep'[t] = pendingSwingStep[t]
         /\ pendingSwingGate'[t] = (pendingSwingGate[t] /\ ~obs'.late[t])
         /\ obs'.late[t] => (SwingPending(t) /\ Shows(t, pendingSwingStep[t]))
         /\ ~obs'.late[t] =>
              /\ gatePulse'[t] =
                   IF isRunning' /\ RLt(RInt(0), gatePulse[t])
                   THEN RSub(gatePulse[t], RInt(obs'.dt)) ELSE gatePulse[t]
              /\ IF Swung(t)
                 THEN outputStep'[t] = outputStep[t]
                      /\ outputPitch'[t] = outputPitch[t]
                 ELSE Shows(t, currentStep'[t])]_vars

(* With swing at 100 %, track 0 has advanced with odd parity from step  *)
(* 0 onto step 1, whose gate is disabled and whose pitch is 1 V: the    *)
(* outputs still show step 0 and nothing is armed.                      *)
C15_Witness ==
  /\ obs.act = "process"
  /\ obs.adv[0] /\ obs.from[0] = 0
  /\ obs.knobs.swing = 100
  /\ stepParity[0] = 1
  /\ currentStep[0] = 1
  /\ ~scenes[0].tracks[0].gates[1]
  /\ scenes[0].tracks[0].pitches[1] = 10
  /\ outputStep[0] = 0 /\ outputPitch[0] = 0
  /\ ~pendingSwingGate[0]

(* ------------------------------------------------------------------ *)
(* Properties of the codec                                             *)
(* ------------------------------------------------------------------ *)
(* C16: loading the record that dataToJson() wrote reproduces, from    *)
(* whatever the store holds at the time of the load, the current       *)
(* scene, the running flag and for every scene and track the empty     *)
(* flag, step count, division index, direction, pitches and gates of   *)
(* the store the record was written from.                              *)
C16_RoundTrip ==
  (obs.act = "load" /\ obs.doc = savedJ) =>
    /\ currentScene = savedFrom.currentScene
    /\ isRunning = savedFrom.isRunning
    /\ \A i \in Scenes :
         /\ scenes[i].isEmpty = savedFrom.scenes[i].isEmpty
         /\ \A t \in Tracks :
              LET a == scenes[i].tracks[t]
                  b == savedFrom.scenes[i].tracks[t]
              IN  /\ a.stepCount = b.stepCount
                  /\ a.divisionIndex = b.divisionIndex
                  /\ a.direction = b.direction
                  /\ \A s \in Steps : a.pitches[s] = b.pitches[s]
                  /\ \A s \in Steps : a.gates[s] = b.gates[s]

(* The full record has been loaded into a store that differed from the *)
(* saved one, and has brought back an edited track, a second scene and *)
(* the stopped state.                                                  *)
C16_Witness ==
  /\ obs.act = "load" /\ obs.doc = savedJ /\ obs.changed
  /\ currentScene = 1 /\ ~isRunning
  /\ ~scenes[1].isEmpty
  /\ scenes[0].tracks[0].stepCount = 4
  /\ scenes[0].tracks[2].direction = DIR_PENDULUM
  /\ scenes[0].tracks[1].pitches[2] = 30
  /\ ~scenes[0].tracks[2].gates[7]

(* C17: a load leaves alone what the record does not hold: the current *)
(* scene, the running flag, the scenes, a scene's empty flag or        *)
(* tracks, a track's step count, division index, direction, pitches or *)
(* gates when the field is absent, and the scenes, tracks, pitches and *)
(* gates beyond the length of a shorter array.                         *)
C17_TrackSkips(tj, a, b) ==
  /\ ~Has(tj, "stepCount") => b.stepCount = a.stepCount
  /\ ~Has(tj, "divisionIndex") => b.divisionIndex = a.divisionIndex
  /\ ~Has(tj, "direction") => b.direction = a.direction
  /\ \A s \in Steps :
       (~Has(tj, "pitches") \/ s >= Len(tj.pitches)) => b.pitches[s] = a.pitches[s]
  /\ \A s \in Steps :
       (~Has(tj, "gates") \/ s >= Len(tj.gates)) => b.gates[s] = a.gates[s]

C17_SceneSkips(sj, a, b) ==
  /\ ~Has(sj, "isEmpty") => b.isEmpty = a.isEmpty
  /\ \A t \in Tracks :
       IF ~Has(sj, "tracks") \/ t >= Len(sj.tracks)
       THEN b.tracks[t] = a.tracks[t]
       ELSE C17_TrackSkips(sj.tracks[t + 1], a.tracks[t], b.tracks[t])

C17_LoadSkips ==
  obs'.act = "load" =>
    LET j == obs'.doc
    IN  /\ ~Has(j, "currentScene") => currentScene' = currentScene
        /\ ~Has(j, "isRunning") => isRunning' = isRunning
        /\ \A i \in Scenes :
             IF ~Has(j, "scenes") \/ i >= Len(j.scenes)
             THEN scenes'[i] = scenes[i]
             ELSE C17_SceneSkips(j.scenes[i + 1], scenes[i], scenes'[i])

C17_FieldOptional == [][C17_LoadSkips]_vars

(* A record without step counts has been loaded: the track keeps the   *)
(* eight steps it had, not the four of the saved store, while the      *)
(* direction of another track has been loaded.                         *)
C17_Witness ==
  /\ obs.act = "load" /\ obs.changed
  /\ Has(obs.doc, "scenes")
  /\ ~Has(obs.doc.scenes[1].tracks[1], "stepCount")
  /\ savedFrom # NoPatch
  /\ savedFrom.scenes[0].tracks[0].stepCount = 4
  /\ scenes[0].tracks[0].stepCount = NUM_STEPS
  /\ scenes[0].tracks[2].direction = DIR_PENDULUM


(* ------------------------------------------------------------------ *)
(* Properties of the knob reads                                        *)
(* ------------------------------------------------------------------ *)
(* C18: after a tick every track of the current scene holds a step     *)
(* count in 1..8, a division index in 0..7 and a direction in 0..3,    *)
(* whatever record was loaded before it, and no tick takes an          *)
(* out-of-range value to the modulo of advanceStep() or to the lookup  *)
(* in DIVISIONS.                                                       *)
C18_Clamped ==
  /\ ~Undefined
  /\ obs.act = "process" =>
       \A t \in Tracks :
         LET td == scenes[currentScene].tracks[t]
         IN  /\ td.stepCount \in 1 .. NUM_STEPS
             /\ td.divisionIndex \in 0 .. (NUM_DIVISIONS - 1)
             /\ td.direction \in {DIR_FORWARD, DIR_REVERSE, DIR_PENDULUM, DIR_RANDOM}


(* ------------------------------------------------------------------ *)
(* Properties of the played steps                                      *)
(* ------------------------------------------------------------------ *)
(* C19: in every state and for every track, the step on the pitch      *)
(* output and the display, the step a pending swing will fire and the  *)
(* current step are below the step count of the track in the current   *)
(* scene.                                                              *)
C19_NeverPlayed ==
  \A t \in Tracks :
    LET n == scenes[currentScene].tracks[t].stepCount
    IN  /\ outputStep[t] < n
        /\ pendingSwingStep[t] < n
        /\ currentStep[t] < n


(* ------------------------------------------------------------------ *)
(* Properties of the stopped sequencer                                 *)
(* ------------------------------------------------------------------ *)
(* C20: in a tick in which the sequencer is stopped there is no clock  *)
(* edge from either source; the internal clock phase and each track's  *)
(* division phase stay as they are (a reset edge zeroes them); each    *)
(* track's sub-step phase and index stay as they are; no track         *)
(* advances and its current step stays, or is 0 after a reset edge;    *)
(* and the time since the last clock rise goes on counting from the    *)
(* same rise.                                                          *)
C20_StoppedTick ==
  (obs'.act = "process" /\ ~isRunning') =>
    /\ ~obs'.clk
    /\ internalClockPhase' = IF obs'.didReset THEN 0 ELSE internalClockPhase
    /\ sinceRise' = IF sinceRise + obs'.dt >= 4000 THEN 4000
                    ELSE sinceRise + obs'.dt
    /\ \A t \in Tracks :
         /\ ~obs'.adv[t]
         /\ clockPhase'[t] = IF obs'.didReset THEN 0 ELSE clockPhase[t]
         /\ trackClockPhase'[t] = trackClockPhase[t]
         /\ trackSubStep'[t] = trackSubStep[t]
         /\ currentStep'[t] = IF obs'.didReset THEN 0 ELSE currentStep[t]

C20_Stopped == [][C20_StoppedTick]_vars

(* A stopped tick on the internal clock, in the multiplication mode,   *)
(* in the middle of the pattern and half a beat after an edge.         *)
C20_Witness ==
  /\ obs.act = "process" /\ ~isRunning /\ ~obs.didReset
  /\ ~obs.clockConn
  /\ currentStep[0] = 3
  /\ internalClockPhase = 30000
  /\ scenes[currentScene].tracks[0].divisionIndex = 3
  /\ trackSubStep[0] = 1


(* ------------------------------------------------------------------ *)
(* Properties of the clock period                                      *)
(* ------------------------------------------------------------------ *)
(* C21: with the clock input patched, the period the tracks use in a   *)
(* tick is the interval measured in that tick when a rise ends an      *)
(* interval between 0.01 s and 4 s, and otherwise the period of the    *)
(* tick before.                                                        *)
C21_Measured ==
  /\ obs'.clk
  /\ sinceRise + obs'.dt > 10
  /\ sinceRise + obs'.dt < 4000

C21_PeriodTick ==
  (obs'.act = "process" /\ obs'.clockConn) =>
    clockPeriod' = IF C21_Measured THEN RInt(sinceRise + obs'.dt)
                   ELSE clockPeriod

C21_PeriodEstimate == [][C21_PeriodTick]_vars


(* ------------------------------------------------------------------ *)
(* Properties of the order within a tick                               *)
(* ------------------------------------------------------------------ *)
(* C22: an advance in the tick of a reset edge starts from step 0, so  *)
(* a forward track at ratio 1 ends the tick at step 1 mod stepCount,   *)
(* and a clock edge in that tick does advance such a track; a tick in  *)
(* which the run button stops the sequencer has no clock edge and no   *)
(* advance.                                                            *)
C22_Tick ==
  obs'.act = "process" =>
    /\ \A t \in Tracks :
         LET td == scenes'[currentScene'].tracks[t]
             plain == td.direction = DIR_FORWARD /\ td.divisionIndex = 2
         IN  /\ (obs'.didReset /\ obs'.adv[t]) => obs'.from[t] = 0
             /\ (obs'.didReset /\ obs'.adv[t] /\ plain) =>
                  currentStep'[t] = 1 % td.stepCount
             /\ (obs'.didReset /\ obs'.clk /\ plain) => obs'.adv[t]
             /\ (obs'.didReset /\ ~obs'.adv[t]) => currentStep'[t] = 0
    /\ (isRunning /\ ~isRunning') =>
         /\ ~obs'.clk
         /\ \A t \in Tracks : ~obs'.adv[t] /\ currentStep'[t] =
                                   IF obs'.didReset THEN 0 ELSE currentStep[t]

C22_IntraTickOrder == [][C22_Tick]_vars

(* A reset edge and a clock edge in one tick, after an odd number of   *)
(* earlier advances of an 8-step forward track: the track is at 1.     *)
C22_Witness ==
  /\ obs.act = "process" /\ obs.didReset /\ obs.clk /\ obs.adv[0]
  /\ scenes[currentScene].tracks[0].stepCount = NUM_STEPS
  /\ scenes[currentScene].tracks[0].direction = DIR_FORWARD
  /\ currentStep[0] = 1
  /\ stepParity[0] = 0


(* ------------------------------------------------------------------ *)
(* Properties of the outputs                                           *)
(* ------------------------------------------------------------------ *)
(* C23: at the end of a tick in which an advance triggered a track's   *)
(* gate at once, the output step is the step advanced to and the       *)
(* output pitch is its pitch; at the end of a tick in which a swing    *)
(* countdown triggered the gate, the output step is the step that was  *)
(* pending and the output pitch is its pitch.                          *)
C23_Synchrony ==
  obs.act = "process" =>
    \A t \in Tracks :
      LET td == scenes[currentScene].tracks[t]
      IN  /\ obs.fire[t] = "now" =>
               /\ outputStep[t] = currentStep[t]
               /\ outputPitch[t] = td.pitches[currentStep[t]]
          /\ obs.late[t] =>
               /\ outputStep[t] = pendingSwingStep[t]
               /\ outputPitch[t] = td.pitches[pendingSwingStep[t]]


(* ------------------------------------------------------------------ *)
(* Properties of advanceStep()                                         *)
(* ------------------------------------------------------------------ *)
(* C24: from any step of the pattern, forward advances go up by one    *)
(* and from the last step to step 0, reverse advances go down by one   *)
(* and from step 0 to the last step; stepCount advances in one         *)
(* direction visit every step once and end at the step they started    *)
(* from; a forward advance followed by a reverse advance ends at the   *)
(* step before the two.                                                *)
C24_At(i) == IF i = 0 THEN obs.cyc.start ELSE obs.cyc.path[i][2]

C24_Uniform(d) == \A i \in 1 .. Len(obs.cyc.path) : obs.cyc.path[i][1] = d

C24_Cyclic ==
  LET p == obs.cyc.path
      n == scenes[currentScene].tracks[0].stepCount
  IN  /\ C24_Uniform(DIR_FORWARD) =>
           \A i \in 1 .. Len(p) :
             C24_At(i) = IF C24_At(i - 1) = n - 1 THEN 0 ELSE C24_At(i - 1) + 1
      /\ C24_Uniform(DIR_REVERSE) =>
           \A i \in 1 .. Len(p) :
             C24_At(i) = IF C24_At(i - 1) = 0 THEN n - 1 ELSE C24_At(i - 1) - 1
      /\ (Len(p) = n /\ (C24_Uniform(DIR_FORWARD) \/ C24_Uniform(DIR_REVERSE))) =>
           /\ {C24_At(i) : i \in 1 .. n} = 0 .. (n - 1)
           /\ C24_At(n) = obs.cyc.start
      /\ \A i \in 1 .. (Len(p) - 1) :
           (p[i][1] = DIR_FORWARD /\ p[i + 1][1] = DIR_REVERSE) =>
             C24_At(i + 1) = C24_At(i - 1)
      /\ currentStep[0] = C24_At(Len(p))

(* Five reverse advances of a 5-step track from step 2: through 0 and  *)
(* 4 back to 2.                                                        *)
C24_Witness ==
  /\ obs.act = "advanceStep"
  /\ scenes[currentScene].tracks[0].stepCount = 5
  /\ obs.cyc.start = 2
  /\ Len(obs.cyc.path) = 5
  /\ C24_Uniform(DIR_REVERSE)
  /\ obs.cyc.path[3][2] = 4
  /\ currentStep[0] = 2


(* ------------------------------------------------------------------ *)
(* Properties of the gate buttons                                      *)
(* ------------------------------------------------------------------ *)
(* C25: in a tick without a scene operation, each gate of the current  *)
(* scene is inverted when its button is pressed and was released at    *)
(* the tick before, and keeps its value otherwise (also while the      *)
(* button stays pressed); the step counts, ratios, directions and      *)
(* pitches of the current scene keep their values unless their knob    *)
(* was turned, and the other scenes keep theirs.                       *)
C25_Tick ==
  (obs'.act = "process" /\ obs'.ops = <<>> /\ ~obs'.cvSwitched
     /\ currentScene' = currentScene) =>
    /\ \A t \in Tracks :
         LET a == scenes[currentScene].tracks[t]
             b == scenes'[currentScene].tracks[t]
         IN  /\ \A st \in Steps :
                  LET edge == gateButtonStates'[Idx(t, st)]
                                /\ ~gateButtonStates[Idx(t, st)]
                  IN  b.gates[st] = IF edge THEN ~a.gates[st] ELSE a.gates[st]
             /\ params' = params => [b EXCEPT !.gates = a.gates] = a
             /\ \A st \in Steps :
                  params'.pitch[Idx(t, st)] = params.pitch[Idx(t, st)] =>
                    b.pitches[st] = a.pitches[st]
    /\ \A sc \in Scenes \ {currentScene} : scenes'[sc] = scenes[sc]

C25_GateToggle == [][C25_Tick]_vars

(* The button of step 1 is held after its second press, and the gate   *)
(* is enabled again; the gate of step 7 of the third track has been    *)
(* inverted once and its button released; scene 1 was never made.      *)
C25_Witness ==
  /\ obs.act = "process" /\ currentScene = 0 /\ scenes[1].isEmpty
  /\ gateButtonStates[Idx(0, 1)] /\ scenes[0].tracks[0].gates[1]
  /\ ~gateButtonStates[Idx(2, 7)] /\ ~scenes[0].tracks[2].gates[7]
  /\ scenes[0].tracks[0].pitches[1] = 10


(* ------------------------------------------------------------------ *)
(* Properties of the knobs                                             *)
(* ------------------------------------------------------------------ *)
(* C26: after a load and after a tick with a scene operation or a      *)
(* scene-CV switch, the step-count, ratio and direction knobs of the   *)
(* three tracks and the 24 pitch knobs hold the values of the current  *)
(* scene; and the first tick after it, when the user does nothing,     *)
(* leaves every scene as it is.                                        *)
C26_KnobsMatch ==
  \A t \in Tracks :
    LET td == scenes[currentScene].tracks[t]
    IN  /\ params.steps[t] = td.stepCount
        /\ params.div[t] = td.divisionIndex
        /\ params.dir[t] = td.direction
        /\ \A st \in Steps : params.pitch[Idx(t, st)] = td.pitches[st]

C26_Switched ==
  \/ obs.act = "load"
  \/ obs.act = "process" /\ (obs.ops # <<>> \/ obs.cvSwitched)

C26_QuietTick ==
  /\ obs'.act = "process" /\ obs'.ops = <<>> /\ ~obs'.cvSwitched
  /\ params' = params
  /\ \A i \in DOMAIN gateButtonStates :
       ~(gateButtonStates'[i] /\ ~gateButtonStates[i])

C26_Resync ==
  /\ [](C26_Switched => C26_KnobsMatch)
  /\ [][(C26_Switched /\ C26_QuietTick) => scenes' = scenes]_vars

(* A load after a module reset has brought the scene with 4 steps and  *)
(* the knob with it.                                                   *)
C26_Witness ==
  /\ obs.act = "load"
  /\ scenes[currentScene].tracks[0].stepCount = 4
  /\ params.steps[0] = 4
  /\ currentScene = 1
  /\ scenes[0].tracks[0].stepCount = NUM_STEPS


(* ------------------------------------------------------------------ *)
(* Properties of the reset trigger, continued                          *)
(* ------------------------------------------------------------------ *)
(* C27: at the end of a tick with a reset edge and no clock edge, a    *)
(* track that neither advanced nor fired a delayed gate in that tick   *)
(* is in the state onReset() gives it: current step 0, pendulum sign +1, division      *)
(* phase 0, sub-step index 0, sub-step phase at most the one sample    *)
(* since the reset, output step 0 and output pitch 0.                  *)
C27_ResetTick ==
  (obs'.act = "process" /\ obs'.didReset /\ ~obs'.clk) =>
    \A t \in Tracks :
      (~obs'.adv[t] /\ ~obs'.late[t]) =>
        /\ currentStep'[t] = 0
        /\ pendulumDir'[t] = 1
        /\ clockPhase'[t] = 0
        /\ trackSubStep'[t] = 0
        /\ trackClockPhase'[t] \in {0, obs'.dt}
        /\ outputStep'[t] = 0
        /\ outputPitch'[t] = 0

C27_ResetRestoresAll == [][C27_ResetTick]_vars


(* ------------------------------------------------------------------ *)
(* Properties of the scene store, continued                            *)
(* ------------------------------------------------------------------ *)
(* C28: in every state the current scene is one of the 8 scenes and is *)
(* not empty.                                                          *)
C28_CurrentNotEmpty ==
  /\ currentScene \in 0 .. (NUM_SCENES - 1)
  /\ ~scenes[currentScene].isEmpty

(* The tick in which the current scene 1 was deleted: the module is on *)
(* scene 0 and scene 1 is empty.                                       *)
C28_Witness ==
  /\ obs.act = "process"
  /\ obs.ops = <<[op |-> "delete", s |-> 1, src |-> -1, cur |-> 1]>>
  /\ currentScene = 0
  /\ scenes[1].isEmpty

(* ------------------------------------------------------------------ *)
(* C29: the outputs follow the order of the advances: when a swing     *)
(* countdown ends and puts its step on the outputs, no step that was   *)
(* advanced to after that countdown was armed has been put on the      *)
(* outputs before, so outputStep is never set back to an earlier       *)
(* advance than the one it shows.                                      *)
(* ------------------------------------------------------------------ *)
C29_Tick ==
  \A t \in Tracks : (obs'.act = "process" /\ obs'.late[t]) => ~obs.stale[t]

C29_OutputOrder == [][C29_Tick]_vars

(* ------------------------------------------------------------------ *)
(* C30: no swung note is lost: a swing countdown that is pending is    *)
(* never armed anew by a later advance before it has ended and has     *)
(* triggered the gate of its own step.                                 *)
(* ------------------------------------------------------------------ *)
C30_Tick ==
  \A t \in Tracks :
    (obs'.act = "process" /\ obs'.armed[t]) => ~pendingSwingGate[t]

C30_NoLostNote == [][C30_Tick]_vars

(* ------------------------------------------------------------------ *)
(* C31: a tick changes only the scene that is current when it starts   *)
(* (by the knob reads and the gate toggles, which leave its isEmpty    *)
(* flag alone) and the scenes that a scene button of that tick pasted  *)
(* to, deleted or filled as an empty scene; without a scene button     *)
(* edge every other scene keeps its track data and its isEmpty flag.   *)
(* ------------------------------------------------------------------ *)
C31_Target(k) ==
  \E i \in 1 .. Len(obs'.ops) :
    obs'.ops[i].s = k /\ obs'.ops[i].op \in {"paste", "delete", "clone"}

C31_Tick ==
  obs'.act = "process" =>
    \A k \in Scenes :
      \/ C31_Target(k)
      \/ scenes'[k] = scenes[k]
      \/ k = currentScene /\ scenes'[k].isEmpty = scenes[k].isEmpty

C31_EditsCurrentOnly == [][C31_Tick]_vars

(* The steps knob was turned to 4 while scene 1 was current and no     *)
(* scene button was pressed: scene 1 holds 4 steps, scene 0 does not.  *)
C31_Witness ==
  /\ obs.act = "process" /\ obs.ops = <<>> /\ ~obs.cvSwitched
  /\ currentScene = 1
  /\ obs.knobs.steps[0] = 4
  /\ scenes[1].tracks[0].stepCount = 4
  /\ ~scenes[0].isEmpty
  /\ scenes[0].tracks[0].stepCount # 4

(* ------------------------------------------------------------------ *)
(* C32: in a tick that changes currentScene, every track takes its     *)
(* division ratio, its gate-enabled decision and its output pitch from *)
(* the scene that is current after the change, the scene advanceStep   *)
(* reads, and never from the scene that was current before.            *)
(* ------------------------------------------------------------------ *)
C32_Track(t) ==
  LET td == scenes'[currentScene'].tracks[t]
      div == DIVISIONS[td.divisionIndex]
      step == currentStep'[t]
  IN  /\ (obs'.clk /\ ~obs'.didReset /\ div[1] >= div[2])
           => clockPhase'[t] = DivisionMode(clockPhase[t], div, TRUE)[1]
      /\ obs'.adv[t]
           => /\ td.gates[step] <=> (obs'.fire[t] = "now" \/ obs'.armed[t])
              /\ outputStep'[t] = step => outputPitch'[t] = td.pitches[step]

C32_Tick ==
  (obs'.act = "process" /\ currentScene' # currentScene)
    => \A t \in Tracks : C32_Track(t)

C32_SwitchWithinTick == [][C32_Tick]_vars

(* ------------------------------------------------------------------ *)
(* C33: the outputs are frozen while the sequencer is stopped: a tick  *)
(* that ends with isRunning false leaves outputPitch and outputStep of *)
(* every track as they were, whether or not a swing delay is pending,  *)
(* and triggers no gate pulse.                                         *)
(* ------------------------------------------------------------------ *)
C33_Tick ==
  (obs'.act = "process" /\ ~isRunning')
    => \A t \in Tracks :
         /\ outputPitch'[t] = outputPitch[t]
         /\ outputStep'[t] = outputStep[t]
         /\ obs'.fire[t] = "no" /\ ~obs'.late[t]

C33_FrozenWhileStopped == [][C33_Tick]_vars

====
